---- MODULE Spec2Model ----
(***************************************************************************)
(* A model of the artifact storage service (storagesvc), its upload        *)
(* registry and progress reader, its multipart form reader, and the        *)
(* fetcher's specialize handshake.                                         *)
(*                                                                         *)
(* Strings are sequences of one-character strings, so that filepath.Base   *)
(* and strconv.Atoi are computed as the code computes them.  The storage   *)
(* backend (stow) is a library outside the repository: a container is a Go *)
(* map from item name to content, Put either stores the content it read or *)
(* fails, leaving nothing or a prefix behind.                              *)
(***************************************************************************)
EXTENDS Integers, Sequences, FiniteSets, TLC

VARIABLES
  store,        \* the write container: item name -> content
  pending,      \* UploadRegistry.pending: name -> [reader, size]
  earlyExtras,  \* UploadRegistry.earlyExtras: name -> extra
  readers,      \* every progress.Reader made so far, by identity: [n, err, extra]
  tokens,       \* how many random upload names were generated
  served,       \* how many requests the service has accepted
  cl,           \* one HTTP client and the handler serving its request
  obs,          \* the last direct call of a registry method and what it returned
  fresh,        \* name -> [reader, size] of a declare not yet followed by a remove
  lastEarly,    \* name -> extra of the last setExtra made while name had no record
  made,         \* the name each reader was declared for, by reader identity
  sp,           \* one SpecializePod call and the runtime peer it talks to
  fs,           \* the fetcher's shared volume: path -> file or directory
  ft,           \* one Fetch call at a time
  ex,           \* one ExtractTarGz call: the archive and the position in it
  lastMod,      \* the write container as the pruner lists it: item ID -> LastMod
  clock,        \* the time, in ticks of 30 seconds
  pr,           \* the sweep of the archive pruner
  readOnly,     \* the read-only containers that RunStorageService resolved, in declared order
  hx,           \* the last request answered by a handler that is one step: what the client returned and the response
  ev,           \* one request of the streaming status endpoint and its ticker
  rdy,          \* the fetcher process: its startup specialization and the probes answered
  hist,         \* name -> how many declare, setExtra and remove calls the registry has served for it
  dl,           \* one DownloadFinalLayer call and the registry it talks to
  sc            \* one FetchSecretsAndCfgMaps call, its lookups and the shared directories

vars == <<store, pending, earlyExtras, readers, tokens, served, cl, obs, fresh, lastEarly, made, sp, fs, ft, ex, lastMod, clock, pr, readOnly, hx, ev, rdy, hist, dl, sc>>


----------------------------------------------------------------------------
(* Bounds of the model. *)

NumClients == 2      \* concurrent requests
MaxParts == 2        \* parts read from one multipart body
MaxRequests == 2     \* requests served in one run
MaxLen == 1          \* bytes in one uploaded part
MaxReaders == 2      \* declares made in a run of the registry alone
MaxRefuse == 31      \* connection attempts the runtime peer may refuse
MaxFetches == 2      \* Fetch calls made in one run
MaxFetchLen == 2     \* bytes in one fetched content
MaxEntries == 2      \* entries in one tar archive
MaxClock == 4        \* ticks of 30 seconds that pass in one run
MaxFallbacks == 2    \* read-only containers in the configuration
MaxTicks == 3        \* ticks of the status stream of one request
MaxProbes == 3       \* probes answered by one fetcher process
MaxLayers == 2       \* layers listed in one image manifest
MaxRefs == 2         \* secret references, and configmap references, of one request

Clients == 1..NumClients
Byte == {0}
Contents == UNION {[1..n -> Byte] : n \in 0..MaxLen}

----------------------------------------------------------------------------
(* Go maps. *)

EmptyMap == [x \in {} |-> 0]
MapPut(m, k, v) == [x \in (DOMAIN m) \cup {k} |-> IF x = k THEN v ELSE m[x]]
MapDel(m, k) == [x \in (DOMAIN m) \ {k} |-> m[x]]

(* Strings. *)
Digits == <<"0", "1", "2", "3", "4", "5", "6", "7", "8", "9">>
IsDigit(ch) == \E i \in 1..10 : Digits[i] = ch
DigitVal(ch) == (CHOOSE i \in 1..10 : Digits[i] = ch) - 1

RECURSIVE ParseNat(_)
ParseNat(s) ==
  IF s = << >> THEN 0
  ELSE 10 * ParseNat(SubSeq(s, 1, Len(s) - 1)) + DigitVal(s[Len(s)])

\* strconv.Atoi: an optional sign and at least one digit, nothing else.
Atoi(s) ==
  LET signed == Len(s) > 0 /\ s[1] \in {"-", "+"}
      body == IF signed THEN Tail(s) ELSE s
  IN IF body = << >> \/ \E i \in 1..Len(body) : ~IsDigit(body[i])
       THEN [err |-> TRUE, n |-> 0]
       ELSE [err |-> FALSE,
             n |-> IF signed /\ s[1] = "-" THEN 0 - ParseNat(body) ELSE ParseNat(body)]

RECURSIVE StripTrailingSlashes(_)
StripTrailingSlashes(s) ==
  IF Len(s) > 0 /\ s[Len(s)] = "/" THEN StripTrailingSlashes(SubSeq(s, 1, Len(s) - 1))
  ELSE s

RECURSIVE AfterLastSlash(_)
AfterLastSlash(s) ==
  IF \E i \in 1..Len(s) : s[i] = "/" THEN AfterLastSlash(Tail(s)) ELSE s

\* filepath.Base
Base(path) ==
  IF path = << >> THEN <<".">>
  ELSE LET t == AfterLastSlash(StripTrailingSlashes(path))
       IN IF t = << >> THEN <<"/">> ELSE t

\* hexdigest(sha256) of a content: 64 hex characters, never the empty string, and
\* (collision resistance) different for different contents.
HexChars == <<"0", "1">>
Sha256Hex(c) == <<"#">> \o [i \in 1..Len(c) |-> HexChars[c[i] + 1]]

\* uuid.NewV4().String(): the k-th random name; it collides with no other name.
UuidChars == <<"u", "v", "w", "x", "y", "z">>
Uuid(k) == <<UuidChars[k]>>

----------------------------------------------------------------------------
(* HTTP requests. *)

NoHeader == [ok |-> FALSE, v |-> << >>]
Header(s) == [ok |-> TRUE, v |-> s]

\* what the two upload routes bind to archiveID
UploadNames == {<< >>, <<"a">>, <<"d", "/", "a">>}
SizeHeaders == {NoHeader, Header(<<"x">>), Header(<<"1">>)}
ShaHeaders == {NoHeader} \cup {Header(Sha256Hex(c)) : c \in Contents}

\* what multipart.Reader.NextPart yields next: io.EOF, a parse error, or a part
\* (form: its FormName, file: its FileName)
EofItem == [kind |-> "eof", form |-> "", file |-> "", content |-> << >>]
ErrItem == [kind |-> "err", form |-> "", file |-> "", content |-> << >>]
UploadedPart(c) == [kind |-> "part", form |-> "f", file |-> "uploaded", content |-> c]
PartItems ==
  {EofItem, ErrItem,
   [kind |-> "part", form |-> "", file |-> "other", content |-> << >>],
   [kind |-> "part", form |-> "f", file |-> "other", content |-> << >>]}
  \cup {UploadedPart(c) : c \in Contents}

Nil == 0            \* the nil *progress.Reader
NilExtra == "nil"   \* the nil interface{}
Extras == {NilExtra, "e1", "e2"}
NoErr == "nil"
EOF == "EOF"

NewReader == [n |-> 0, err |-> NoErr, extra |-> NilExtra]

\* the zero UploadStatus
NoSnapshot == [status |-> "", extra |-> NilExtra, size |-> 0, n |-> 0, err |-> NoErr]

IdleClient ==
  [pc |-> "idle", uploadName |-> << >>, sizeHdr |-> NoHeader, fileSize |-> -1,
   expected |-> << >>, nparts |-> 0, removers |-> << >>, rolled |-> << >>,
   digest |-> << >>, putName |-> << >>, content |-> << >>, r |-> Nil,
   putErr |-> FALSE, formErr |-> FALSE, status |-> 0, respId |-> << >>,
   dlFault |-> "none", dlStatus |-> 0, dlBody |-> << >>,
   pollId |-> << >>, pollFault |-> "none", pollR |-> Nil, pollSize |-> 0,
   pollCode |-> 0, snap |-> NoSnapshot, completedBy |-> {}, got |-> 0,
   notMultipart |-> FALSE, panicked |-> FALSE]

IdleObs == [op |-> "none", name |-> << >>, counter |-> Nil, size |-> 0,
            r |-> Nil, early |-> NoHeader]

NoCause == [kind |-> "none", attempt |-> 0]
IdleSp == [pc |-> "idle", refuse |-> 0, final |-> "2xx", i |-> 0, posts |-> 0,
           result |-> "none", cause |-> NoCause, steps |-> << >>, failed |-> "none"]

NoArchive == [literal |-> << >>, url |-> << >>, image |-> << >>, checksum |-> << >>]
NoRequest == [filename |-> << >>, fetchType |-> "source", keepArchive |-> FALSE]
IdleFt == [pc |-> "idle", calls |-> 0, req |-> NoRequest, archive |-> NoArchive,
           body |-> << >>, got |-> << >>, src |-> << >>, fault |-> "none",
           did |-> {}, code |-> 0, err |-> NoErr]

IdleEx == [pc |-> "idle", archive |-> << >>, pos |-> 0, createdDirs |-> {}, err |-> NoErr]

IdlePr == [currentTime |-> 0, listed |-> EmptyMap, referenced |-> {}, todo |-> {},
           deleted |-> {}, failed |-> {}]

NoExchange == [op |-> "none", query |-> NoHeader, fileId |-> << >>, fault |-> "none",
               err |-> NoErr, code |-> 0, body |-> [fmt |-> "", args |-> << >>]]

IdleEv == [pc |-> "idle", fileId |-> << >>, counter |-> Nil, completed |-> FALSE,
           size |-> -1, code |-> 0, ticks |-> 0, emitted |-> 0, last |-> "",
           connected |-> TRUE, requestDone |-> FALSE, ctxDone |-> FALSE, left |-> "none",
           ticker |-> "none"]

IdleRdy == [pc |-> "init", specializeOnStart |-> FALSE, readyToServe |-> FALSE,
            specialized |-> FALSE, answers |-> << >>]

IdleDl == [pc |-> "idle", manifest |-> << >>, lastLayer |-> << >>, asked |-> << >>,
           blob |-> << >>, read |-> << >>, err |-> NoErr]

IdleSc == [pc |-> "idle", secrets |-> << >>, cfgmaps |-> << >>, i |-> 0, looked |-> << >>,
           files |-> EmptyMap, code |-> 0]

Init ==
  /\ store = EmptyMap
  /\ pending = EmptyMap
  /\ earlyExtras = EmptyMap
  /\ readers = << >>
  /\ tokens = 0
  /\ served = 0
  /\ cl = [c \in Clients |-> IdleClient]
  /\ obs = IdleObs
  /\ fresh = EmptyMap
  /\ lastEarly = EmptyMap
  /\ made = << >>
  /\ sp = IdleSp
  /\ fs = EmptyMap
  /\ ft = IdleFt
  /\ ex = IdleEx
  /\ lastMod = EmptyMap
  /\ clock = 0
  /\ pr = IdlePr
  /\ readOnly = << >>
  /\ hx = NoExchange
  /\ ev = IdleEv
  /\ rdy = IdleRdy
  /\ hist = EmptyMap
  /\ dl = IdleDl
  /\ sc = IdleSc

----------------------------------------------------------------------------
(* UploadRegistry and progress.Reader.  A reader's identity is its index   *)
(* in readers; every method runs under the registry mutex, so each is one  *)
(* step.                                                                   *)

\* the extra that declare finds buffered for uploadName, if any
DeclareExtraMutantDropped(uploadName) == NilExtra

DeclareExtra(uploadName) ==
  IF uploadName \in DOMAIN earlyExtras THEN earlyExtras[uploadName] ELSE NilExtra

\* the buffer after declare consumed uploadName's entry
DeclareBufferMutantClears(uploadName) == EmptyMap

DeclareBuffer(uploadName) == MapDel(earlyExtras, uploadName)

\* reg.declare(uploadName, size, reader): the new reader is Len(readers) + 1
declare(uploadName, size) ==
  /\ pending' = MapPut(pending, uploadName, [reader |-> Len(readers) + 1, size |-> size])
  /\ readers' = Append(readers, [NewReader EXCEPT !.extra = DeclareExtra(uploadName)])
  /\ earlyExtras' = DeclareBuffer(uploadName)
  /\ made' = Append(made, uploadName)

\* reg.get(uploadName)
GetMutantSizeLost(uploadName) ==
  IF uploadName \in DOMAIN pending
    THEN [counter |-> pending[uploadName].reader, size |-> -1]
    ELSE [counter |-> Nil, size |-> -1]

get(uploadName) ==
  IF uploadName \in DOMAIN pending
    THEN [counter |-> pending[uploadName].reader, size |-> pending[uploadName].size]
    ELSE [counter |-> Nil, size |-> -1]

\* the pending map after reg.remove(uploadName, r): deleted only on identity
RemoveMutantNoIdentity(uploadName, r) == MapDel(pending, uploadName)

RemoveMutantKeeps(uploadName, r) == pending

removePending(uploadName, r) ==
  IF uploadName \in DOMAIN pending /\ pending[uploadName].reader = r
    THEN MapDel(pending, uploadName)
    ELSE pending

remove(uploadName, r) == pending' = removePending(uploadName, r)

\* reg.setExtra(uploadName, extra)
SetExtraMutantAlwaysBuffers(uploadName, extra) ==
  /\ earlyExtras' = MapPut(earlyExtras, uploadName, extra)
  /\ UNCHANGED readers

setExtra(uploadName, extra) ==
  IF uploadName \notin DOMAIN pending
    THEN /\ earlyExtras' = MapPut(earlyExtras, uploadName, extra)
         /\ UNCHANGED readers
    ELSE /\ readers' = [readers EXCEPT ![pending[uploadName].reader].extra = extra]
         /\ UNCHANGED earlyExtras

(* The registry called directly, as its unit tests would. *)
RegNames == {<<"a">>, <<"b">>}
RegSizes == {-1, 5}

\* the calls served for a name so far, counted as 0, 1 or more
NoCalls == [declares |-> 0, setExtras |-> 0, removes |-> 0, extra |-> NilExtra]
Calls(name) == IF name \in DOMAIN hist THEN hist[name] ELSE NoCalls
More(k) == IF k = 0 THEN 1 ELSE 2
ManyCalls == [declares |-> 2, setExtras |-> 2, removes |-> 2, extra |-> NilExtra]
Served(name, calls) ==
  MapPut(hist, name, IF calls.declares > 1 \/ calls.setExtras > 1 \/ calls.removes > 0
                       THEN ManyCalls ELSE calls)

RegDeclare(name, size) ==
  /\ Len(readers) < MaxReaders
  /\ declare(name, size)
  /\ obs' = [IdleObs EXCEPT !.op = "declare", !.name = name, !.size = size,
                            !.r = Len(readers) + 1,
                            !.early = IF name \in DOMAIN lastEarly
                                        THEN Header(<<lastEarly[name]>>) ELSE NoHeader]
  /\ fresh' = MapPut(fresh, name, [reader |-> Len(readers) + 1, size |-> size])
  /\ lastEarly' = MapDel(lastEarly, name)
  /\ hist' = Served(name, [Calls(name) EXCEPT !.declares = More(@)])
  /\ UNCHANGED <<store, tokens, served, cl, sp, fs, ft, ex, lastMod, clock, pr, readOnly, hx, ev, rdy, dl, sc>>

RegGet(name) ==
  /\ obs' = [IdleObs EXCEPT !.op = "get", !.name = name,
                            !.counter = get(name).counter, !.size = get(name).size]
  /\ UNCHANGED hist
  /\ UNCHANGED <<store, pending, earlyExtras, readers, tokens, served, cl, fresh, lastEarly, made, sp, fs, ft, ex, lastMod, clock, pr, readOnly, hx, ev, rdy, dl, sc>>

RegRemove(name, r) ==
  /\ remove(name, r)
  /\ obs' = [IdleObs EXCEPT !.op = "remove", !.name = name, !.r = r]
  /\ fresh' = MapDel(fresh, name)
  /\ hist' = Served(name, [Calls(name) EXCEPT !.removes = More(@)])
  /\ UNCHANGED <<store, earlyExtras, readers, tokens, served, cl, lastEarly, made, sp, fs, ft, ex, lastMod, clock, pr, readOnly, hx, ev, rdy, dl, sc>>

RegSetExtra(name, extra) ==
  /\ setExtra(name, extra)
  /\ obs' = [IdleObs EXCEPT !.op = "setExtra", !.name = name]
  /\ lastEarly' = IF name \in DOMAIN pending THEN MapDel(lastEarly, name)
                  ELSE MapPut(lastEarly, name, extra)
  /\ hist' = Served(name, [Calls(name) EXCEPT !.setExtras = More(@), !.extra = extra])
  /\ UNCHANGED <<store, pending, tokens, served, cl, fresh, made, sp, fs, ft, ex, lastMod, clock, pr, readOnly, hx, ev, rdy, dl, sc>>

NextRegistry ==
  \/ \E name \in RegNames, size \in RegSizes : RegDeclare(name, size)
  \/ \E name \in RegNames : RegGet(name)
  \/ \E name \in RegNames, r \in 1..MaxReaders : RegRemove(name, r)
  \/ \E name \in RegNames, extra \in Extras : RegSetExtra(name, extra)

SpecRegistry == Init /\ [][NextRegistry]_vars

----------------------------------------------------------------------------
(* StorageService: one upload request per client, served in steps that     *)
(* other requests interleave with: the headers, each NextPart of ReadForm, *)
(* each Read of container.Put through the progress reader, the return of   *)
(* putFile (its deferred registry remove), and the response.               *)

Set(c, rec) == cl' = [cl EXCEPT ![c] = rec]

\* http.Error(w, ..., status) and return
Respond(rec, status) == [rec EXCEPT !.pc = "done", !.status = status]

\* client.removeFileByID(itemID): container.RemoveItem
removeFileByID(st, itemID) == MapDel(st, itemID)

RECURSIVE RunRemovers(_, _)
RunRemovers(st, names) ==
  IF names = << >> THEN st
  ELSE RunRemovers(removeFileByID(st, Head(names)), Tail(names))

\* ReadForm's deferred func tests the err declared at the top of ReadForm; the loop
\* declares its own err (p, err := r.NextPart()), so the outer one is never set.
ReadFormDeferredErr(loopErr) == FALSE

\* ReadForm returning loopErr: the deferred func runs the removers if its err is set
ReadFormReturn(c, rec, loopErr) ==
  LET rollback == ReadFormDeferredErr(loopErr)
      rec2 == [rec EXCEPT !.formErr = loopErr,
                          !.rolled = IF rollback THEN rec.removers ELSE << >>]
  IN  /\ store' = IF rollback THEN RunRemovers(store, rec.removers) ELSE store
      /\ IF loopErr
           THEN \* "Error saving uploaded file"
                Set(c, Respond(rec2, 500))
           ELSE IF rec.digest = << >>
             THEN \* "missing upload file"
                  Set(c, Respond(rec2, 400))
             ELSE IF rec.expected # << >> /\ rec.digest # rec.expected
               THEN \* "Didn't match expected X-File-Sha256"
                    Set(c, Respond(rec2, 400))
               ELSE Set(c, [Respond(rec2, 200) EXCEPT !.respId = rec.uploadName])

\* uploadHandler up to the call of ReadForm
UploadStart(c, name, sizeHdr, shaHdr) ==
  /\ cl[c].pc = "idle"
  /\ served < MaxRequests
  /\ served' = served + 1
  /\ LET parsed == Atoi(sizeHdr.v)
         rec == [cl[c] EXCEPT !.uploadName = name, !.sizeHdr = sizeHdr,
                              !.expected = IF shaHdr.ok THEN shaHdr.v ELSE << >>]
     IN IF sizeHdr.ok /\ parsed.err
          THEN Set(c, Respond(rec, 400))
          ELSE Set(c, [rec EXCEPT !.pc = "parts",
                                  !.fileSize = IF sizeHdr.ok THEN parsed.n ELSE -1])
  /\ UNCHANGED <<store, pending, earlyExtras, readers, tokens, obs, fresh, lastEarly, made, sp, fs, ft, ex, lastMod, clock, pr, readOnly, hx, ev, rdy, hist, dl, sc>>

\* uploadHandler up to the call of ReadForm for a request whose body is no
\* multipart stream: r.MultipartReader() returns a nil reader and an error,
\* the error is logged and the handler goes on
UploadStartNotMultipart(c, name, sizeHdr, shaHdr) ==
  /\ cl[c].pc = "idle"
  /\ served < MaxRequests
  /\ served' = served + 1
  /\ LET parsed == Atoi(sizeHdr.v)
         rec == [cl[c] EXCEPT !.uploadName = name, !.sizeHdr = sizeHdr,
                              !.expected = IF shaHdr.ok THEN shaHdr.v ELSE << >>,
                              !.notMultipart = TRUE]
     IN IF sizeHdr.ok /\ parsed.err
          THEN Set(c, Respond(rec, 400))
          ELSE Set(c, [rec EXCEPT !.pc = "parts",
                                  !.fileSize = IF sizeHdr.ok THEN parsed.n ELSE -1])
  /\ UNCHANGED <<store, pending, earlyExtras, readers, tokens, obs, fresh, lastEarly, made, sp, fs, ft, ex, lastMod, clock, pr, readOnly, hx, ev, rdy, hist, dl, sc>>

\* ReadForm(nil, visitor): r.NextPart() dereferences the nil reader; the
\* handler panics, the server recovers and closes the connection with no
\* response written
NextPartOnNil(c) ==
  /\ cl[c].pc = "parts"
  /\ cl[c].notMultipart
  /\ Set(c, [cl[c] EXCEPT !.pc = "done", !.status = 0, !.panicked = TRUE])
  /\ UNCHANGED <<store, pending, earlyExtras, readers, tokens, served, obs, fresh, lastEarly, made, sp, fs, ft, ex, lastMod, clock, pr, readOnly, hx, ev, rdy, hist, dl, sc>>

\* one turn of ReadForm's loop: NextPart, and the visitor up to putFile's declare
NextPart(c, item) ==
  /\ cl[c].pc = "parts"
  /\ ~cl[c].notMultipart
  /\ item.kind = "part" => cl[c].nparts < MaxParts
  /\ LET rec == [cl[c] EXCEPT !.nparts = @ + 1]
     IN CASE item.kind = "eof" ->
               /\ ReadFormReturn(c, cl[c], FALSE)
               /\ UNCHANGED <<pending, earlyExtras, readers, tokens, made>>
          [] item.kind = "err" ->
               /\ ReadFormReturn(c, cl[c], TRUE)
               /\ UNCHANGED <<pending, earlyExtras, readers, tokens, made>>
          [] item.kind = "part" /\ item.form = "" ->
               /\ Set(c, rec)
               /\ UNCHANGED <<store, pending, earlyExtras, readers, tokens, made>>
          [] item.kind = "part" /\ item.form # "" /\ item.file # "uploaded" ->
               \* "Unexpected file"
               /\ ReadFormReturn(c, rec, TRUE)
               /\ UNCHANGED <<pending, earlyExtras, readers, tokens, made>>
          [] item.kind = "part" /\ item.form # "" /\ item.file = "uploaded" ->
               \* putFile: the name, then declare
               LET generated == rec.uploadName = << >>
                   putName == IF generated THEN Uuid(tokens + 1) ELSE rec.uploadName
               IN /\ tokens' = IF generated THEN tokens + 1 ELSE tokens
                  /\ declare(putName, rec.fileSize)
                  /\ Set(c, [rec EXCEPT !.pc = "put", !.putName = putName,
                                        !.content = item.content,
                                        !.r = Len(readers) + 1, !.putErr = FALSE,
                                        !.got = 0])
                  /\ UNCHANGED store
  /\ UNCHANGED <<served, obs, fresh, lastEarly, sp, fs, ft, ex, lastMod, clock, pr, readOnly, hx, ev, rdy, hist, dl, sc>>

\* progress.Reader.Read after r.r.Read returned n bytes and err: the count and
\* the last error change under one hold of the lock
ReadMutantAssigns(rd, n, err) == [rd EXCEPT !.n = n, !.err = err]

Read(rd, n, err) == [rd EXCEPT !.n = @ + n, !.err = err]

\* progress.Reader.Read under container.Put: one byte, or EOF at the end of the
\* part; at EOF Put stores what it read and returns the item
PutRead(c) ==
  /\ cl[c].pc = "put"
  /\ LET n == IF cl[c].got < Len(cl[c].content) THEN 1 ELSE 0
         err == IF n = 0 THEN EOF ELSE NoErr
     IN /\ readers' = [readers EXCEPT ![cl[c].r] = Read(@, n, err)]
        /\ IF err = NoErr
             THEN /\ Set(c, [cl[c] EXCEPT !.got = @ + n])
                  /\ UNCHANGED store
             ELSE /\ store' = MapPut(store, cl[c].putName, cl[c].content)
                  /\ Set(c, [cl[c] EXCEPT !.pc = "putret"])
  /\ UNCHANGED <<pending, earlyExtras, tokens, served, obs, fresh, lastEarly, made, sp, fs, ft, ex, lastMod, clock, pr, readOnly, hx, ev, rdy, hist, dl, sc>>

\* container.Put failing: the backend keeps nothing, or what it wrote so far
PutFail(c, keep) ==
  /\ cl[c].pc = "put"
  /\ store' = IF keep THEN MapPut(store, cl[c].putName,
                                  SubSeq(cl[c].content, 1, readers[cl[c].r].n))
              ELSE store
  /\ Set(c, [cl[c] EXCEPT !.pc = "putret", !.putErr = TRUE])
  /\ UNCHANGED <<pending, earlyExtras, readers, tokens, served, obs, fresh, lastEarly, made, sp, fs, ft, ex, lastMod, clock, pr, readOnly, hx, ev, rdy, hist, dl, sc>>

\* putFile returns (its deferred uploads.remove), then the rest of the visitor
PutReturn(c) ==
  /\ cl[c].pc = "putret"
  /\ remove(cl[c].putName, cl[c].r)
  /\ IF cl[c].putErr
       THEN \* ErrWritingFile: the visitor fails, ReadForm returns it
            ReadFormReturn(c, cl[c], TRUE)
       ELSE /\ Set(c, [cl[c] EXCEPT
                         !.pc = "parts",
                         !.digest = Sha256Hex(SubSeq(cl[c].content, 1, readers[cl[c].r].n)),
                         !.removers = Append(@, cl[c].uploadName)])
            /\ UNCHANGED store
  /\ UNCHANGED <<earlyExtras, readers, tokens, served, obs, fresh, lastEarly, made, sp, fs, ft, ex, lastMod, clock, pr, readOnly, hx, ev, rdy, hist, dl, sc>>

\* downloadHandler for the id of the upload response: copyFileToStream
DownloadFaults == {"none", "item", "open", "copy"}

Download(c, fault) ==
  /\ cl[c].pc = "done"
  /\ cl[c].status = 200
  /\ LET fileId == Base(cl[c].respId)
         rec == [cl[c] EXCEPT !.pc = "downloaded", !.dlFault = fault]
     IN CASE fileId \notin DOMAIN store /\ fault # "item" ->
               \* stow.ErrNotFound: ErrNotFound
               Set(c, [rec EXCEPT !.dlStatus = 404])
          [] fault = "item" ->
               \* any other error of container.Item: ErrRetrievingItem
               Set(c, [rec EXCEPT !.dlStatus = 400])
          [] fileId \in DOMAIN store /\ fault = "open" ->
               \* ErrOpeningItem
               Set(c, [rec EXCEPT !.dlStatus = 400])
          [] fileId \in DOMAIN store /\ fault = "copy" ->
               \* ErrWritingFileIntoResponse
               Set(c, [rec EXCEPT !.dlStatus = 500])
          [] fileId \in DOMAIN store /\ fault = "none" ->
               Set(c, [rec EXCEPT !.dlStatus = 200, !.dlBody = store[fileId]])
  /\ UNCHANGED <<store, pending, earlyExtras, readers, tokens, served, obs, fresh, lastEarly, made, sp, fs, ft, ex, lastMod, clock, pr, readOnly, hx, ev, rdy, hist, dl, sc>>

\* deleteHandler
Delete(c, id) ==
  /\ cl[c].pc = "idle"
  /\ served < MaxRequests
  /\ served' = served + 1
  /\ store' = removeFileByID(store, Base(id))
  /\ Set(c, [cl[c] EXCEPT !.pc = "deleted",
                          !.status = IF Base(id) \in DOMAIN store THEN 200 ELSE 500])
  /\ UNCHANGED <<pending, earlyExtras, readers, tokens, obs, fresh, lastEarly, made, sp, fs, ft, ex, lastMod, clock, pr, readOnly, hx, ev, rdy, hist, dl, sc>>

\* the exchange is over: the handler's locals are gone, the client may ask again
Close(c) ==
  /\ cl[c].pc \in {"done", "downloaded", "deleted"}
  /\ Set(c, IdleClient)
  /\ UNCHANGED <<store, pending, earlyExtras, readers, tokens, served, obs, fresh, lastEarly, made, sp, fs, ft, ex, lastMod, clock, pr, readOnly, hx, ev, rdy, hist, dl, sc>>

\* no other request is being served
Quiet(c) == \A d \in Clients \ {c} : cl[d].pc = "idle"

\* requests arrive one at a time, with every kind of input
Next ==
  \/ \E c \in Clients, name \in UploadNames, sizeHdr \in SizeHeaders, shaHdr \in ShaHeaders :
       Quiet(c) /\ UploadStart(c, name, sizeHdr, shaHdr)
  \/ \E c \in Clients, item \in PartItems : NextPart(c, item)
  \/ \E c \in Clients : PutRead(c)
  \/ \E c \in Clients, keep \in BOOLEAN : PutFail(c, keep)
  \/ \E c \in Clients : PutReturn(c)
  \/ \E c \in Clients, fault \in DownloadFaults : Quiet(c) /\ Download(c, fault)
  \/ \E c \in Clients, id \in UploadNames : Quiet(c) /\ Delete(c, id)
  \/ \E c \in Clients : Close(c)

Spec == Init /\ [][Next]_vars

\* requests for one name served concurrently
RaceNames == {<<"a">>}
RaceItems == {EofItem} \cup {UploadedPart(c) : c \in Contents}

NextRace ==
  \/ \E c \in Clients, name \in RaceNames, shaHdr \in ShaHeaders :
       UploadStart(c, name, Header(<<"1">>), shaHdr)
  \/ \E c \in Clients, item \in RaceItems : NextPart(c, item)
  \/ \E c \in Clients : PutRead(c)
  \/ \E c \in Clients, keep \in BOOLEAN : PutFail(c, keep)
  \/ \E c \in Clients : PutReturn(c)

SpecRace == Init /\ [][NextRace]_vars

\* uploads of one name that overlap: the size declared, no digest, one part
\* in the body
NextOverlap ==
  \/ \E c \in Clients, name \in RaceNames : UploadStart(c, name, Header(<<"1">>), NoHeader)
  \/ \E c \in Clients, item \in RaceItems :
       (item.kind = "part" => cl[c].nparts = 0) /\ NextPart(c, item)
  \/ \E c \in Clients : PutRead(c)
  \/ \E c \in Clients, keep \in BOOLEAN : PutFail(c, keep)
  \/ \E c \in Clients : PutReturn(c)

SpecOverlap == Init /\ [][NextOverlap]_vars

\* uploads of one name, some with a body that is no multipart stream
NextMultipart ==
  \/ \E c \in Clients, name \in RaceNames, sizeHdr \in SizeHeaders :
       UploadStart(c, name, sizeHdr, NoHeader)
  \/ \E c \in Clients, name \in RaceNames, sizeHdr \in SizeHeaders :
       UploadStartNotMultipart(c, name, sizeHdr, NoHeader)
  \/ \E c \in Clients : NextPartOnNil(c)
  \/ \E c \in Clients, item \in RaceItems :
       (item.kind = "part" => cl[c].nparts = 0) /\ NextPart(c, item)
  \/ \E c \in Clients : PutRead(c)
  \/ \E c \in Clients, keep \in BOOLEAN : PutFail(c, keep)
  \/ \E c \in Clients : PutReturn(c)
  \/ \E c \in Clients : Close(c)

SpecMultipart == Init /\ [][NextMultipart]_vars

\* C37: an upload whose body cannot be opened as a multipart stream ends with
\* an error status written, after no call of NextPart on the reader that was
\* not created, and with no artifact stored by it.
C37_NoPartsFromFailedReader ==
  \A c \in Clients :
    (cl[c].notMultipart /\ cl[c].pc = "done")
    => /\ cl[c].status \in 400..599
       /\ ~cl[c].panicked
       /\ cl[c].putName = << >>

----------------------------------------------------------------------------
(* Claims about the upload and download handlers. *)

Finished(c) == cl[c].pc \in {"done", "downloaded"}
SizeHeaderBad(c) == ~cl[c].sizeHdr.ok \/ Atoi(cl[c].sizeHdr.v).err

\* C1: an upload whose X-File-Sha256 header differs from the sha256 computed over
\* the uploaded part is answered 400, and when the request has completed no
\* artifact is stored under its upload name.
C1_MismatchStoresNothing ==
  \A c \in Clients :
    (/\ Finished(c)
     /\ ~cl[c].formErr
     /\ cl[c].digest # << >>
     /\ cl[c].expected # << >>
     /\ cl[c].digest # cl[c].expected)
    => /\ cl[c].status = 400
       /\ cl[c].putName \notin DOMAIN store

\* C2: when ReadForm returns an error, every rollback action registered by the
\* parts already visited has been invoked, in registration order; when it returns
\* nil, none has.
C2_RollbackOnError ==
  \A c \in Clients :
    Finished(c) =>
      IF cl[c].formErr THEN cl[c].rolled = cl[c].removers
      ELSE cl[c].rolled = << >>

\* C3: an upload with no digest header that was answered with an id, followed by a
\* download of that id (the backend serving it without a fault), yields exactly
\* the uploaded bytes.
C3_RoundTrip ==
  \A c \in Clients :
    (/\ cl[c].pc = "downloaded"
     /\ cl[c].expected = << >>
     /\ cl[c].dlFault = "none")
    => /\ cl[c].dlStatus = 200
       /\ cl[c].dlBody = cl[c].content

\* C4: the id of a successful upload response is the name the artifact was stored
\* under, for a supplied name and for a generated one.
C4_ResponseIdIsStoredName ==
  \A c \in Clients :
    (Finished(c) /\ cl[c].status = 200) => cl[c].respId = cl[c].putName

\* C5: at the moment an upload that carried a digest header is answered 200, the
\* bytes stored under its name hash to the header's digest, whatever other
\* uploads of the same name run concurrently.
C5_StoredMatchesDigestAtResponse ==
  [][\A c \in Clients :
       (/\ cl[c].pc # "done"
        /\ cl'[c].pc = "done"
        /\ cl'[c].status = 200
        /\ cl'[c].expected # << >>)
       => /\ cl'[c].putName \in DOMAIN store'
          /\ Sha256Hex(store'[cl'[c].putName]) = cl'[c].expected]_vars

\* C6: an upload without an X-File-Size header, or with one that is no integer, is
\* answered 400 and stores no artifact (stated for the requests whose multipart
\* body reads without an error, so that the size header alone decides the answer).
C6_SizeHeaderRequired ==
  \A c \in Clients :
    (Finished(c) /\ SizeHeaderBad(c) /\ ~cl[c].formErr)
    => /\ cl[c].status = 400
       /\ cl[c].putName = << >>

\* C27: while a putFile is between its declare and its deferred remove,
\* get of its name returns a counter, whatever other uploads of that name
\* have done meanwhile.
C27_PendingWhileInProgress ==
  \A c \in Clients :
    cl[c].pc \in {"put", "putret"} => get(cl[c].putName).counter # Nil

\* C28: a name that no putFile is working on (each one has returned, with
\* success or with a write error) has no record in the registry, and a record
\* in the registry is the record of a putFile of that name still in progress.
C28_NoRecordAfterReturn ==
  \A name \in RaceNames :
    LET inProgress == {c \in Clients : cl[c].pc \in {"put", "putret"} /\ cl[c].putName = name}
    IN /\ inProgress = {} => name \notin DOMAIN pending
       /\ name \in DOMAIN pending
            => \E c \in inProgress : pending[name].reader = cl[c].r

\* two uploads of one name, the first one declared failed to write
C28_Witness ==
  /\ \A c \in Clients : cl[c].pc = "done" /\ cl[c].putName = <<"a">>
  /\ cl[1].r = 1 /\ cl[1].putErr
  /\ cl[2].r = 2 /\ ~cl[2].putErr
  /\ pending = EmptyMap

\* C29: in every step the byte count of every reader stays or grows, the
\* count of a reader being read is the number of bytes its Reads have
\* returned, and a Read that returns an error leaves that error as the
\* reader's last error together with the count.
C29_CountNeverDecreases ==
  [][/\ \A i \in DOMAIN readers : readers'[i].n >= readers[i].n
     /\ \A c \in Clients :
          cl'[c].pc \in {"put", "putret"}
          => /\ readers'[cl'[c].r].n = cl'[c].got
             /\ (cl[c].pc = "put" /\ readers'[cl[c].r].err = EOF)
                  => readers'[cl[c].r].n = Len(cl[c].content)]_vars

C29_Witness ==
  /\ cl[1].pc = "putret"
  /\ cl[1].content # << >>
  /\ cl[1].r \in DOMAIN readers
  /\ readers[cl[1].r].n = 1
  /\ readers[cl[1].r].err = EOF

----------------------------------------------------------------------------
(* Claims about the registry, under SpecRegistry. *)

\* C7: a get(name) that follows declare(name, size, ...) with no remove or further
\* declare of name in between returns that declare's reader (non-nil) and exactly
\* its size; get on a name with no pending record returns (nil, -1).
C7_DeclareThenGet ==
  obs.op = "get" =>
    /\ obs.name \in DOMAIN fresh =>
         /\ obs.counter # Nil
         /\ obs.counter = fresh[obs.name].reader
         /\ obs.size = fresh[obs.name].size
    /\ obs.name \notin DOMAIN pending => obs.counter = Nil /\ obs.size = -1

C7_Witness ==
  /\ obs.op = "get"
  /\ obs.name \in DOMAIN fresh
  /\ obs.counter # Nil
  /\ obs.size = 5

\* C8: remove(name, ref) deletes name's record exactly when the record registered
\* for name holds the reader ref; with any other ref (a stale reader, a name with
\* no record) the registry is unchanged, and no other name's record is touched.
C8_RemoveByIdentity ==
  [][obs'.op = "remove" =>
       IF obs'.name \in DOMAIN pending /\ pending[obs'.name].reader = obs'.r
         THEN pending' = MapDel(pending, obs'.name)
         ELSE pending' = pending]_vars

\* declare(X) = a, declare(X) = b, remove(X, a): get(X) still returns b
C8_Witness ==
  /\ obs.op = "remove"
  /\ obs.r \in 1..Len(made)
  /\ made[obs.r] = obs.name
  /\ get(obs.name).counter # Nil
  /\ get(obs.name).counter > obs.r
  /\ made[get(obs.name).counter] = obs.name

\* C9: when the last setExtra(X, v) before a declare(X, ...) was made while X had
\* no pending record, the reader that declare returns has extra v, and after the
\* declare the early-extra buffer has no entry for X.
C9_EarlyExtraApplied ==
  (obs.op = "declare" /\ obs.early.ok) =>
    /\ readers[obs.r].extra = obs.early.v[1]
    /\ obs.name \notin DOMAIN earlyExtras

C9_Witness ==
  /\ obs.op = "declare"
  /\ obs.early = Header(<<"e1">>)
  /\ readers[obs.r].extra = "e1"

\* C26: when the registry has served exactly one setExtra(X, v) and one
\* declare(X, ...) and no remove of X, in either order, the record registered
\* for X has extra v and the early-extra buffer has no entry for X.
C26_ExtraEitherOrder ==
  \A name \in RegNames :
    (/\ Calls(name).declares = 1
     /\ Calls(name).setExtras = 1
     /\ Calls(name).removes = 0)
    => /\ name \in DOMAIN pending
       /\ readers[pending[name].reader].extra = Calls(name).extra
       /\ name \notin DOMAIN earlyExtras

\* the declare came first
C26_Witness ==
  /\ obs.op = "setExtra"
  /\ Calls(obs.name) = [declares |-> 1, setExtras |-> 1, removes |-> 0, extra |-> "e2"]
  /\ readers[pending[obs.name].reader].extra = "e2"

\* C36: a setExtra(X, v) made while X has no pending record puts v in the
\* early-extra buffer and changes no reader, so no upload declared before it
\* gets v; the entry of X stays as it is through every call that is neither
\* a setExtra of X nor a declare of X; and the declare of X that follows
\* gives v to the reader it creates, takes the entry out of the buffer and
\* changes no earlier reader.
C36_EarlyExtraWaitsForNextDeclare ==
  [][\A name \in RegNames :
       /\ (obs'.op = "setExtra" /\ obs'.name = name /\ name \notin DOMAIN pending)
            => /\ name \in DOMAIN earlyExtras'
               /\ earlyExtras'[name] = lastEarly'[name]
               /\ readers' = readers
               /\ pending' = pending
       /\ (name \in DOMAIN earlyExtras /\ ~(obs'.op \in {"setExtra", "declare"} /\ obs'.name = name))
            => /\ name \in DOMAIN earlyExtras'
               /\ earlyExtras'[name] = earlyExtras[name]
       /\ (name \in DOMAIN earlyExtras /\ obs'.op = "declare" /\ obs'.name = name)
            => /\ Len(readers') = Len(readers) + 1
               /\ readers'[Len(readers')].extra = earlyExtras[name]
               /\ pending'[name].reader = Len(readers')
               /\ name \notin DOMAIN earlyExtras'
               /\ \A i \in 1..Len(readers) : readers'[i] = readers[i]]_vars

\* an upload of a was declared and removed; then an extra was set for a; the
\* second declare of a got it, the reader of the first did not
C36_Witness ==
  /\ made = <<<<"a">>, <<"a">>>>
  /\ obs.op = "declare"
  /\ obs.early = Header(<<"e1">>)
  /\ Calls(<<"a">>).removes > 0
  /\ readers[2].extra = "e1"
  /\ readers[1].extra = NilExtra
  /\ <<"a">> \notin DOMAIN earlyExtras

----------------------------------------------------------------------------
(* Fetcher.SpecializePod: the fetch, the secrets and configmaps, then the   *)
(* POST to the runtime, retried on dial errors.  The runtime peer refuses   *)
(* its first sp.refuse connections and answers sp.final from then on.       *)

MaxRetries == 30
PeerAnswers == {"2xx", "500", "other"}

\* the retry test on a dial error in attempt i
ShouldRetryMutantOffByOne(i) == i < MaxRetries - 2

ShouldRetryMutantAlways(i) == TRUE

ShouldRetry(i) == i < MaxRetries - 1

\* the type switch on the Post error: *url.Error holding a *net.OpError whose
\* Op is "dial"; a nil error (any response) fails the first assertion
IsDialErrorMutantAnyFailure(outcome) == outcome # "2xx"

IsDialError(outcome) == outcome = "dial"

\* errors.Wrap(err, msg): nil when err is nil
Wrap(rec, cause) ==
  IF cause = NoCause
    THEN [rec EXCEPT !.pc = "done", !.result = "ok", !.cause = NoCause]
    ELSE [rec EXCEPT !.pc = "done", !.result = "specializeErr", !.cause = cause]

SpStart(refuse, final) ==
  /\ sp.pc = "idle"
  /\ sp' = [sp EXCEPT !.pc = "fetch", !.refuse = refuse, !.final = final]
  /\ UNCHANGED <<store, pending, earlyExtras, readers, tokens, served, cl, obs, fresh, lastEarly, made, fs, ft, ex, lastMod, clock, pr, readOnly, hx, ev, rdy, hist, dl, sc>>

\* the step SpecializePod has come to, and the step that failed
Step(rec, name, ok) ==
  [rec EXCEPT !.steps = Append(@, name),
              !.failed = IF ok \/ @ # "none" THEN @ ELSE name]

\* if err != nil { return errors.Wrap(err, ...) } after a step
ReturnOnErrorMutantGoesOn(rec, ok, result, next) == [rec EXCEPT !.pc = next]

ReturnOnError(rec, ok, result, next) ==
  IF ok THEN [rec EXCEPT !.pc = next]
  ELSE [rec EXCEPT !.pc = "done", !.result = result]

\* fetcher.Fetch(ctx, fetchReq, loadReq.FilePath)
SpFetch(ok) ==
  /\ sp.pc = "fetch"
  /\ sp' = ReturnOnError(Step(sp, "fetch", ok), ok, "fetchErr", "secrets")
  /\ UNCHANGED <<store, pending, earlyExtras, readers, tokens, served, cl, obs, fresh, lastEarly, made, fs, ft, ex, lastMod, clock, pr, readOnly, hx, ev, rdy, hist, dl, sc>>

\* fetcher.FetchSecretsAndCfgMaps(fetchReq.Secrets, fetchReq.ConfigMaps)
SpSecrets(ok) ==
  /\ sp.pc = "secrets"
  /\ sp' = ReturnOnError(Step(sp, "secrets", ok), ok, "secretsErr", "post")
  /\ UNCHANGED <<store, pending, earlyExtras, readers, tokens, served, cl, obs, fresh, lastEarly, made, fs, ft, ex, lastMod, clock, pr, readOnly, hx, ev, rdy, hist, dl, sc>>

\* what the peer does with the connection attempt after `posts` earlier ones
PeerOutcome(posts) == IF posts < sp.refuse THEN "dial" ELSE sp.final

\* one turn of the retry loop: the loop test, ctxhttp.Post, the classification.
\* The err of the loop body is its own (resp, err :=); the return after the
\* loop wraps the function's err, nil since json.Marshal succeeded.
SpPost ==
  /\ sp.pc = "post"
  /\ IF sp.i < MaxRetries
       THEN LET outcome == PeerOutcome(sp.posts)
                posted == [Step(sp, "post", TRUE) EXCEPT !.posts = @ + 1]
                attempt == sp.posts + 1
            IN CASE outcome = "2xx" ->
                      sp' = [posted EXCEPT !.pc = "done", !.result = "ok"]
                 [] outcome # "2xx" /\ IsDialError(outcome) /\ ShouldRetry(sp.i) ->
                      sp' = [posted EXCEPT !.i = @ + 1]
                 [] outcome # "2xx" /\ IsDialError(outcome) /\ ~ShouldRetry(sp.i) ->
                      sp' = Wrap(posted, [kind |-> outcome, attempt |-> attempt])
                 [] outcome # "2xx" /\ ~IsDialError(outcome) ->
                      sp' = Wrap(posted, [kind |-> outcome, attempt |-> attempt])
       ELSE sp' = Wrap(sp, NoCause)
  /\ UNCHANGED <<store, pending, earlyExtras, readers, tokens, served, cl, obs, fresh, lastEarly, made, fs, ft, ex, lastMod, clock, pr, readOnly, hx, ev, rdy, hist, dl, sc>>

NextSpecialize ==
  \/ \E refuse \in 0..MaxRefuse, final \in PeerAnswers : SpStart(refuse, final)
  \/ \E ok \in BOOLEAN : SpFetch(ok)
  \/ \E ok \in BOOLEAN : SpSecrets(ok)
  \/ SpPost

SpecSpecialize == Init /\ [][NextSpecialize]_vars

\* C10: with a peer that refuses the first k connections, k < 30, and then answers
\* 2xx, a SpecializePod call that reaches the handshake returns success after
\* exactly k + 1 POSTs.
C10_RetryUntilAccepted ==
  (/\ sp.pc = "done"
   /\ sp.result \notin {"fetchErr", "secretsErr"}
   /\ sp.refuse < MaxRetries
   /\ sp.final = "2xx")
  => /\ sp.result = "ok"
     /\ sp.posts = sp.refuse + 1

C10_Witness ==
  /\ sp.pc = "done"
  /\ sp.refuse = MaxRetries - 1
  /\ sp.final = "2xx"
  /\ sp.result = "ok"
  /\ sp.posts = MaxRetries

C12_AtMostThirtyAttempts ==
  /\ sp.posts <= MaxRetries
  /\ sp.pc = "post" => (sp.i = sp.posts /\ sp.i < MaxRetries)
  /\ (sp.pc = "done" /\ sp.result \notin {"fetchErr", "secretsErr"}
        /\ sp.refuse >= MaxRetries)
     => /\ sp.result = "specializeErr"
        /\ sp.posts = MaxRetries
        /\ sp.cause = [kind |-> "dial", attempt |-> MaxRetries]

C12_Witness ==
  /\ sp.pc = "done"
  /\ sp.refuse >= MaxRetries
  /\ sp.result = "specializeErr"
  /\ sp.posts = MaxRetries
  /\ sp.cause.attempt = MaxRetries

\* C25: SpecializePod does the fetch first, the secrets and configmaps second
\* and only then the POSTs; when the fetch or the materialization fails, the
\* call returns that error and has made no POST.
C25_StepsInOrder ==
  /\ \A k \in DOMAIN sp.steps :
       sp.steps[k] = IF k = 1 THEN "fetch" ELSE IF k = 2 THEN "secrets" ELSE "post"
  /\ sp.posts > 0 => Len(sp.steps) = sp.posts + 2
  /\ sp.failed = "fetch"
       => sp.pc = "done" /\ sp.result = "fetchErr" /\ sp.posts = 0 /\ sp.steps = <<"fetch">>
  /\ sp.failed = "secrets"
       => /\ sp.pc = "done" /\ sp.result = "secretsErr" /\ sp.posts = 0
          /\ sp.steps = <<"fetch", "secrets">>

C25_Witness ==
  /\ sp.pc = "done"
  /\ sp.failed = "secrets"
  /\ sp.result = "secretsErr"
  /\ sp.posts = 0

----------------------------------------------------------------------------
(* Fetcher.Fetch on the shared volume.  A path is a sequence of characters; *)
(* a file holds bytes, a directory holds what was extracted into it.        *)

ZipMagic == 1
FetchBytes == {0, ZipMagic}
FetchContents == UNION {[1..n -> FetchBytes] : n \in 0..MaxFetchLen}

File(data) == [kind |-> "file", data |-> data]
Dir(data) == [kind |-> "dir", data |-> data]

\* os.Stat(path) returns no error
Exists(fsys, path) == path \in DOMAIN fsys

IsFile(fsys, path) == Exists(fsys, path) /\ fsys[path].kind = "file"

\* writing `written` from offset 0 over `old` without truncating it
Overlay(old, written) == written \o SubSeq(old, Len(written) + 1, Len(old))

\* os.OpenFile(path, O_WRONLY|O_CREATE) followed by writes of `written`
OpenWrite(fsys, path, written) ==
  MapPut(fsys, path,
         File(IF Exists(fsys, path) THEN Overlay(fsys[path].data, written) ELSE written))

\* os.Rename(src, dst)
rename(fsys, src, dst) ==
  [p \in ((DOMAIN fsys) \ {src}) \cup {dst} |-> IF p = dst THEN fsys[src] ELSE fsys[p]]

\* archiver.Zip.Match(path): a regular file that starts with the zip signature
ZipMatch(fsys, path) ==
  /\ IsFile(fsys, path)
  /\ Len(fsys[path].data) > 0
  /\ fsys[path].data[1] = ZipMagic

\* verifyChecksum(got, expect) returns nil
verifyChecksumMutantAccepts(got, expect) == TRUE

verifyChecksum(got, expect) == got = expect

DestPath == <<"f">>
TmpPath(destPath) == destPath \o <<".", "t", "m", "p">>

FetchTypes == {"source", "deployment", "url"}
FetchRequests ==
  [filename : {<< >>, DestPath}, fetchType : FetchTypes, keepArchive : BOOLEAN]

Literals == {<< >>, <<ZipMagic>>}
Urls == {<< >>, <<"u">>}
Images == {<< >>, <<"i">>}
Checksums == {<< >>} \cup {Sha256Hex(c) : c \in {<<0>>, <<ZipMagic>>}}
Archives == [literal : Literals, url : Urls, image : Images, checksum : Checksums]
BuildStatuses == {"succeeded", "none", "failed"}
PackageResults ==
  {[err |-> TRUE, buildStatus |-> "none", archive |-> NoArchive]}
  \cup [err : {FALSE}, buildStatus : BuildStatuses, archive : Archives]

\* what ctxhttp.Get, os.OpenFile, io.Copy and Sync do in one downloadUrl: which
\* step failed, and the bytes that reached the file
DownloadOutcomes ==
  {[kind |-> "getErr", body |-> << >>], [kind |-> "openErr", body |-> << >>]}
  \cup [kind : {"copyErr", "ok"}, body : FetchContents]

ImageOutcomes == {"manifestErr", "extractErr", "digestMismatch", "ok"}

FetchDone(rec, code, err) == [rec EXCEPT !.pc = "done", !.code = code, !.err = err]

\* downloadUrl returned an error
DownloadFailedMutantIgnored(outcome) == FALSE

DownloadFailed(outcome) == outcome.kind # "ok"

\* the test that skips the fetch: os.Stat(destPath) returns no error
AlreadyFetchedMutantNever(fsys, destPath) == FALSE

AlreadyFetched(fsys, destPath) == Exists(fsys, destPath)

\* Fetch up to the existence test of the destination
FetchStart(req) ==
  /\ ft.pc = "idle"
  /\ ft.calls < MaxFetches
  /\ LET rec == [IdleFt EXCEPT !.calls = ft.calls + 1, !.req = req,
                               !.src = TmpPath(DestPath)]
     IN ft' = IF Len(req.filename) = 0 THEN FetchDone(rec, 400, "emptyName")
              ELSE IF AlreadyFetched(fs, DestPath) THEN FetchDone(rec, 200, NoErr)
              ELSE [rec EXCEPT !.pc = IF req.fetchType = "url" THEN "download" ELSE "pkg"]
  /\ UNCHANGED <<store, pending, earlyExtras, readers, tokens, served, cl, obs, fresh, lastEarly, made, sp, fs, ex, lastMod, clock, pr, readOnly, hx, ev, rdy, hist, dl, sc>>

\* the content source of an archive: the first of literal, URL and image that
\* is not empty
ContentSourceMutantUrlFirst(a) ==
  IF Len(a.url) > 0 THEN "download"
  ELSE IF Len(a.literal) > 0 THEN "literal"
  ELSE IF Len(a.image) > 0 THEN "image"
  ELSE "nothing"

ContentSource(a) ==
  IF Len(a.literal) > 0 THEN "literal"
  ELSE IF Len(a.url) > 0 THEN "download"
  ELSE IF Len(a.image) > 0 THEN "image"
  ELSE "nothing"

\* fissionClient.Packages(ns).Get(name), the build status test and the choice
\* of the content source
FetchPackage(res) ==
  /\ ft.pc = "pkg"
  /\ LET rec == [ft EXCEPT !.did = @ \cup {"pkgGet"}]
         a == res.archive
     IN ft' = IF res.err
                THEN FetchDone([rec EXCEPT !.fault = "pkgGet"], 500, "pkgGet")
              ELSE IF /\ ft.req.fetchType = "deployment"
                      /\ res.buildStatus \notin {"succeeded", "none"}
                THEN FetchDone(rec, 500, "build")
              ELSE IF ContentSource(a) = "nothing"
                THEN FetchDone([rec EXCEPT !.archive = a], 400, "nothing")
              ELSE [rec EXCEPT !.pc = ContentSource(a), !.archive = a]
  /\ UNCHANGED <<store, pending, earlyExtras, readers, tokens, served, cl, obs, fresh, lastEarly, made, sp, fs, ex, lastMod, clock, pr, readOnly, hx, ev, rdy, hist, dl, sc>>

\* ioutil.WriteFile(tmpPath, archive.Literal, 0600): create or truncate, write
FetchWriteLiteral(outcome) ==
  /\ ft.pc = "literal"
  /\ LET rec == [ft EXCEPT !.did = @ \cup {"write"}]
         opened == outcome # "openErr" /\ (Exists(fs, ft.src) => IsFile(fs, ft.src))
     IN IF opened /\ outcome = "ok"
          THEN /\ fs' = MapPut(fs, ft.src, File(ft.archive.literal))
               /\ ft' = [rec EXCEPT !.pc = "staged", !.body = ft.archive.literal]
          ELSE /\ fs' = IF opened THEN MapPut(fs, ft.src, File(<< >>)) ELSE fs
               /\ ft' = FetchDone([rec EXCEPT !.fault = "write"], 500, "write")
  /\ UNCHANGED <<store, pending, earlyExtras, readers, tokens, served, cl, obs, fresh, lastEarly, made, sp, ex, lastMod, clock, pr, readOnly, hx, ev, rdy, hist, dl, sc>>

\* downloadUrl(ctx, httpClient, url, tmpPath) and, for a package, verifyChecksum
FetchDownload(outcome) ==
  /\ ft.pc = "download"
  /\ LET o == IF /\ outcome.kind \in {"copyErr", "ok"}
                 /\ Exists(fs, ft.src) /\ ~IsFile(fs, ft.src)
                THEN [kind |-> "openErr", body |-> << >>] ELSE outcome
         rec == [ft EXCEPT !.did = @ \cup {"download"}, !.body = o.body,
                           !.fault = IF o.kind = "ok" THEN @ ELSE "download"]
         got == Sha256Hex(o.body)
     IN /\ fs' = IF o.kind \in {"copyErr", "ok"} THEN OpenWrite(fs, ft.src, o.body) ELSE fs
        /\ ft' = IF DownloadFailed(o)
                   THEN FetchDone(rec, 400, "download")
                 ELSE IF /\ ft.req.fetchType # "url"
                         /\ ~verifyChecksum(got, ft.archive.checksum)
                   THEN FetchDone([rec EXCEPT !.got = got], 400, "checksum")
                 ELSE [rec EXCEPT !.pc = "staged", !.got = got]
  /\ UNCHANGED <<store, pending, earlyExtras, readers, tokens, served, cl, obs, fresh, lastEarly, made, sp, ex, lastMod, clock, pr, readOnly, hx, ev, rdy, hist, dl, sc>>

\* dockerBlobFetcher.DownloadFinalLayer(ctx, archive.Image, tmpPath): the layer
\* is extracted into a directory at tmpPath, then its digest is verified
FetchImage(outcome) ==
  /\ ft.pc = "image"
  /\ LET o == IF outcome # "manifestErr" /\ IsFile(fs, ft.src) THEN "extractErr" ELSE outcome
         rec == [ft EXCEPT !.did = @ \cup {"image"}]
     IN /\ fs' = IF o = "manifestErr" \/ IsFile(fs, ft.src) THEN fs
                 ELSE IF o = "extractErr" THEN MapPut(fs, ft.src, Dir(<< >>))
                 ELSE MapPut(fs, ft.src, Dir(<<0>>))
        /\ ft' = IF o = "ok" THEN [rec EXCEPT !.pc = "staged"]
                 ELSE FetchDone([rec EXCEPT !.fault = "image"], 500, "image")
  /\ UNCHANGED <<store, pending, earlyExtras, readers, tokens, served, cl, obs, fresh, lastEarly, made, sp, ex, lastMod, clock, pr, readOnly, hx, ev, rdy, hist, dl, sc>>

\* the unarchive of a zip into a fresh directory and the rename into place
FetchPlace(unarchiveOk, renameOk) ==
  /\ ft.pc = "staged"
  /\ LET useArchiver == ~ft.req.keepArchive /\ ZipMatch(fs, ft.src)
         tmpUnarchivePath == Uuid(ft.calls)
     IN IF useArchiver /\ ~unarchiveOk
          THEN /\ fs' = MapPut(fs, tmpUnarchivePath, Dir(<< >>))
               /\ ft' = FetchDone([ft EXCEPT !.did = @ \cup {"unarchive"},
                                             !.fault = "unarchive"], 500, "unarchive")
          ELSE LET fs1 == IF useArchiver
                            THEN MapPut(fs, tmpUnarchivePath, Dir(Tail(fs[ft.src].data)))
                            ELSE fs
                   src == IF useArchiver THEN tmpUnarchivePath ELSE ft.src
                   rec == [ft EXCEPT !.src = src,
                             !.did = @ \cup (IF useArchiver THEN {"unarchive", "rename"}
                                             ELSE {"rename"})]
               IN IF renameOk /\ Exists(fs1, src)
                    THEN /\ fs' = rename(fs1, src, DestPath)
                         /\ ft' = FetchDone(rec, 200, NoErr)
                    ELSE /\ fs' = fs1
                         /\ ft' = FetchDone([rec EXCEPT !.fault = "rename"], 500, "rename")
  /\ UNCHANGED <<store, pending, earlyExtras, readers, tokens, served, cl, obs, fresh, lastEarly, made, sp, ex, lastMod, clock, pr, readOnly, hx, ev, rdy, hist, dl, sc>>

\* the caller takes the result; the next Fetch may start
FetchReturn ==
  /\ ft.pc = "done"
  /\ ft' = [IdleFt EXCEPT !.calls = ft.calls]
  /\ UNCHANGED <<store, pending, earlyExtras, readers, tokens, served, cl, obs, fresh, lastEarly, made, sp, fs, ex, lastMod, clock, pr, readOnly, hx, ev, rdy, hist, dl, sc>>

NextFetch ==
  \/ \E req \in FetchRequests : FetchStart(req)
  \/ \E res \in PackageResults : FetchPackage(res)
  \/ \E outcome \in {"ok", "openErr", "writeErr"} : FetchWriteLiteral(outcome)
  \/ \E outcome \in DownloadOutcomes : FetchDownload(outcome)
  \/ \E outcome \in ImageOutcomes : FetchImage(outcome)
  \/ \E unarchiveOk \in BOOLEAN, renameOk \in BOOLEAN : FetchPlace(unarchiveOk, renameOk)
  \/ FetchReturn

SpecFetch == Init /\ [][NextFetch]_vars

\* the staging of a finished call failed: a download, image fetch or extraction
\* error, or downloaded package bytes whose digest is not the recorded one
StagingFailed(rec) ==
  \/ rec.fault \in {"download", "image", "unarchive"}
  \/ /\ rec.req.fetchType # "url"
     /\ rec.got # << >>
     /\ rec.got # rec.archive.checksum

\* C13: a Fetch with a non-empty filename whose destination already exists
\* returns 200 with no error in its first step, has looked up no package,
\* downloaded, written, extracted and renamed nothing, and leaves the volume as
\* it was, for every fetch type.
C13_ExistingDestinationNoOp ==
  [][(/\ ft.pc = "idle"
      /\ ft'.pc # "idle"
      /\ Len(ft'.req.filename) > 0
      /\ DestPath \in DOMAIN fs)
     => /\ ft'.pc = "done"
        /\ ft'.code = 200
        /\ ft'.err = NoErr
        /\ ft'.did = {}
        /\ fs' = fs]_vars

C13_Witness ==
  /\ ft.pc = "done"
  /\ ft.req.fetchType = "url"
  /\ ft.code = 200
  /\ ft.did = {}
  /\ DestPath \in DOMAIN fs
  /\ TmpPath(DestPath) \in DOMAIN fs

\* C14: the destination comes into existence only in the step that renames a
\* staged result into place and returns 200; a call whose staging failed ends
\* with an error and without the destination; and the staging file
\* destPath+".tmp" leaves the volume only by that successful rename.
C14_DestinationOnlyByRename ==
  [][/\ (DestPath \notin DOMAIN fs /\ DestPath \in DOMAIN fs')
        => /\ ft.pc = "staged" /\ ft'.pc = "done"
           /\ ft'.code = 200 /\ ft'.fault = "none"
           /\ ft'.src \notin DOMAIN fs'
           /\ fs'[DestPath] = IF ft'.src = TmpPath(DestPath) THEN fs[TmpPath(DestPath)]
                              ELSE Dir(Tail(fs[TmpPath(DestPath)].data))
     /\ (ft'.pc = "done" /\ StagingFailed(ft'))
        => /\ ft'.code # 200 /\ ft'.err # NoErr
           /\ DestPath \notin DOMAIN fs'
     /\ (TmpPath(DestPath) \in DOMAIN fs /\ TmpPath(DestPath) \notin DOMAIN fs')
        => /\ ft'.pc = "done" /\ ft'.code = 200
           /\ DestPath \in DOMAIN fs']_vars

C14_Witness ==
  /\ ft.pc = "done"
  /\ ft.fault = "download"
  /\ ft.code = 400
  /\ ft.body # << >>
  /\ TmpPath(DestPath) \in DOMAIN fs
  /\ DestPath \notin DOMAIN fs

\* C15: once the download of a stored package's URL content has succeeded, a
\* digest of the downloaded bytes that differs from the recorded checksum ends
\* the Fetch with the checksum error (400) and no destination; an equal digest
\* lets the call go on to the placement, never to the checksum error.
C15_ChecksumMismatchFails ==
  (ft.req.fetchType # "url" /\ ft.got # << >>)
  => IF ft.got # ft.archive.checksum
       THEN /\ ft.pc = "done"
            /\ ft.code = 400
            /\ ft.err = "checksum"
            /\ DestPath \notin DOMAIN fs
       ELSE /\ ft.err # "checksum"
            /\ ft.pc = "staged" \/ ft.did \cap {"unarchive", "rename"} # {}

C15_Witness ==
  /\ ft.pc = "done"
  /\ ft.err = "checksum"
  /\ ft.archive.checksum # << >>
  /\ ft.got = Sha256Hex(ft.body)
  /\ DestPath \notin DOMAIN fs

\* C33: a fetch of a stored package whose lookup and build status test passed
\* writes the literal when it is not empty, otherwise downloads the URL when
\* that is not empty, otherwise fetches the image when that is not empty, and
\* uses no other source; with all three empty it returns 400 in that step,
\* leaves the volume as it was, and neither the staging file nor the
\* destination is there unless it was there before the call.
C33_SourcePriority ==
  [][(ft'.req.fetchType # "url" /\ "pkgGet" \in ft'.did
      /\ ft'.err \notin {"pkgGet", "build"})
     => LET a == ft'.archive
            used == ft'.did \cap {"write", "download", "image"}
            pick == IF a.literal # << >> THEN "write"
                    ELSE IF a.url # << >> THEN "download"
                    ELSE IF a.image # << >> THEN "image"
                    ELSE "none"
        IN /\ used \subseteq {pick}
           /\ (ft.pc = "pkg" /\ pick # "none")
                => ft'.pc = (IF pick = "write" THEN "literal" ELSE pick)
           /\ pick = "none"
                => /\ ft'.pc = "done" /\ ft'.code = 400 /\ ft'.err = "nothing"
                   /\ fs' = fs
                   /\ DestPath \notin DOMAIN fs'
                   /\ ft.pc = "pkg" /\ (ft.calls = 1 => TmpPath(DestPath) \notin DOMAIN fs')]_vars

\* a package with no literal, no URL and no image is answered with 400 on a
\* volume that holds nothing
C33_Witness ==
  /\ ft.pc = "done"
  /\ ft.code = 400
  /\ ft.err = "nothing"
  /\ ft.archive.literal = << >> /\ ft.archive.url = << >> /\ ft.archive.image = << >>
  /\ ft.did = {"pkgGet"}
  /\ fs = EmptyMap

\* C34: a fetch of URL content that returns 200 without unpacking has placed
\* at the destination a file of exactly the bytes that were downloaded and
\* hashed.
C34_PlacedBytesAreDownloaded ==
  (ft.pc = "done" /\ ft.code = 200 /\ "download" \in ft.did /\ "unarchive" \notin ft.did)
  => /\ DestPath \in DOMAIN fs
     /\ fs[DestPath] = File(ft.body)

----------------------------------------------------------------------------
(* tarextract.ExtractTarGz: the entries of the archive are handled one by   *)
(* one, in the order of the stream.                                         *)

\* strings.Split(s, "/")
RECURSIVE Split(_)
Split(s) ==
  IF \E i \in 1..Len(s) : s[i] = "/"
    THEN LET i == CHOOSE i \in 1..Len(s) : s[i] = "/" /\ \A j \in 1..(i - 1) : s[j] # "/"
         IN <<SubSeq(s, 1, i - 1)>> \o Split(SubSeq(s, i + 1, Len(s)))
    ELSE <<s>>

\* strings.Join(elems, "/")
RECURSIVE JoinSlash(_)
JoinSlash(elems) ==
  IF elems = << >> THEN << >>
  ELSE IF Len(elems) = 1 THEN elems[1]
  ELSE elems[1] \o <<"/">> \o JoinSlash(Tail(elems))

\* the element stack of filepath.Clean after the elements es
RECURSIVE CleanElems(_, _, _)
CleanElems(es, out, rooted) ==
  IF es = << >> THEN out
  ELSE LET el == Head(es)
           next == IF el = << >> \/ el = <<".">> THEN out
                   ELSE IF el = <<".", ".">>
                     THEN IF Len(out) > 0 /\ out[Len(out)] # <<".", ".">>
                            THEN SubSeq(out, 1, Len(out) - 1)
                          ELSE IF rooted THEN out
                          ELSE Append(out, el)
                   ELSE Append(out, el)
       IN CleanElems(Tail(es), next, rooted)

\* filepath.Clean
Clean(path) ==
  LET rooted == Len(path) > 0 /\ path[1] = "/"
      body == JoinSlash(CleanElems(Split(path), << >>, rooted))
  IN IF rooted THEN <<"/">> \o body
     ELSE IF body = << >> THEN <<".">>
     ELSE body

\* filepath.Join(a, b)
Join(a, b) ==
  IF a = << >> /\ b = << >> THEN << >>
  ELSE IF a = << >> THEN Clean(b)
  ELSE IF b = << >> THEN Clean(a)
  ELSE Clean(a \o <<"/">> \o b)

\* filepath.Dir
FilepathDir(path) ==
  IF \E i \in 1..Len(path) : path[i] = "/"
    THEN LET i == CHOOSE i \in 1..Len(path) :
                    path[i] = "/" /\ \A j \in (i + 1)..Len(path) : path[j] # "/"
         IN Clean(SubSeq(path, 1, i))
    ELSE <<".">>

\* strings.HasPrefix
HasPrefix(s, prefix) ==
  Len(s) >= Len(prefix) /\ SubSeq(s, 1, Len(prefix)) = prefix

\* the rejection test on a cleaned entry name
IsInvalidNameMutantAccepts(name) == FALSE

IsInvalidName(name) == HasPrefix(name, <<".", ".">>)

\* the path and every ancestor of it that os.MkdirAll visits
Ancestors(path) ==
  LET es == Split(path)
  IN {JoinSlash(SubSeq(es, 1, k)) : k \in 1..Len(es)} \ {<< >>}

MkdirAllOk(fsys, path) == \A p \in Ancestors(path) : Exists(fsys, p) => ~IsFile(fsys, p)

MkdirAll(fsys, path) ==
  [p \in (DOMAIN fsys) \cup Ancestors(path) |->
     IF p \in DOMAIN fsys THEN fsys[p] ELSE Dir(<< >>)]

Destination == <<"t">>

TarNames ==
  {<<"a">>, <<"d">>, <<"d", "/", "a">>, <<"/", "e">>,
   <<".", ".", "/", "x">>, <<".", ".", "b">>,
   <<"d", "/", ".", ".", "/", "a">>,
   <<"d", "/", ".", ".", "/", ".", ".", "/", "x">>}
TarTypes == {"dir", "reg", "symlink"}
\* what tarReader.Next yields: a header, or an error of the stream
TarEntries ==
  [name : TarNames, type : TarTypes, content : {<<0>>}]
  \cup {[name |-> << >>, type |-> "corrupt", content |-> << >>]}
TarArchives == UNION {[1..n -> TarEntries] : n \in 0..MaxEntries}

ExtractDone(err) == ex' = [ex EXCEPT !.pc = "done", !.err = err]

\* gzip.NewReader, tar.NewReader on a destination that does not exist yet
ExtractStart(archive) ==
  /\ ex.pc = "idle"
  /\ fs = EmptyMap
  /\ ex' = [IdleEx EXCEPT !.pc = "run", !.archive = archive]
  /\ UNCHANGED fs
  /\ UNCHANGED <<store, pending, earlyExtras, readers, tokens, served, cl, obs, fresh, lastEarly, made, sp, ft, lastMod, clock, pr, readOnly, hx, ev, rdy, hist, dl, sc>>

\* one turn of the loop: tarReader.Next and the handling of the entry
ExtractNext ==
  /\ ex.pc = "run"
  /\ IF ex.pos = Len(ex.archive)
       THEN ExtractDone(NoErr) /\ UNCHANGED fs
       ELSE LET header == ex.archive[ex.pos + 1]
                name == Clean(header.name)
                path == Join(Destination, name)
                dir == IF header.type = "dir" THEN path ELSE FilepathDir(path)
                made1 == IF dir \in ex.createdDirs THEN fs ELSE MkdirAll(fs, dir)
                mkdirOk == dir \in ex.createdDirs \/ MkdirAllOk(fs, dir)
                step == [ex EXCEPT !.pos = @ + 1, !.createdDirs = @ \cup {dir}]
            IN IF header.type = "corrupt" THEN ExtractDone("readNext") /\ UNCHANGED fs
               ELSE IF IsInvalidName(name) THEN ExtractDone("invalidName") /\ UNCHANGED fs
               ELSE IF header.type \notin {"dir", "reg"}
                 THEN ExtractDone("unknownType") /\ UNCHANGED fs
               ELSE IF ~mkdirOk THEN ExtractDone("mkdir") /\ UNCHANGED fs
               ELSE IF header.type = "dir" THEN ex' = step /\ fs' = made1
               ELSE IF Exists(made1, path) /\ ~IsFile(made1, path)
                 THEN ExtractDone("create") /\ fs' = made1
               ELSE ex' = step /\ fs' = OpenWrite(made1, path, header.content)
  /\ UNCHANGED <<store, pending, earlyExtras, readers, tokens, served, cl, obs, fresh, lastEarly, made, sp, ft, lastMod, clock, pr, readOnly, hx, ev, rdy, hist, dl, sc>>

NextExtract ==
  \/ \E archive \in TarArchives : ExtractStart(archive)
  \/ ExtractNext

SpecExtract == Init /\ [][NextExtract]_vars

HasParentEntry(archive) ==
  \E i \in 1..Len(archive) :
    archive[i].type # "corrupt" /\ HasPrefix(Clean(archive[i].name), <<".", ".">>)

\* C16: when the extraction of an archive that holds an entry whose cleaned name
\* starts with ".." has returned, it has returned an error and the volume holds
\* no file and no directory, whatever the position of that entry.
C16_ParentEntryWritesNothing ==
  (ex.pc = "done" /\ HasParentEntry(ex.archive))
  => (ex.err # NoErr /\ fs = EmptyMap)

\* C30: every file and directory on the volume is the destination or lies
\* under it, whatever the names of the entries; the entries handled without
\* an error are directories and regular files, and an entry of another type
\* ends the extraction with an error.
C30_StaysInsideDestination ==
  /\ \A p \in DOMAIN fs : p = Destination \/ HasPrefix(p, Destination \o <<"/">>)
  /\ \A i \in 1..ex.pos : ex.archive[i].type \in {"dir", "reg"}
  /\ (ex.pc = "done" /\ ex.err = NoErr)
       => \A i \in DOMAIN ex.archive : ex.archive[i].type \in {"dir", "reg"}

\* an absolute name and a name with an embedded "..", both written under the
\* destination
C30_Witness ==
  /\ ex.pc = "done"
  /\ ex.err = NoErr
  /\ ex.archive = <<[name |-> <<"/", "e">>, type |-> "reg", content |-> <<0>>],
                    [name |-> <<"d", "/", ".", ".", "/", "a">>, type |-> "reg",
                     content |-> <<0>>]>>
  /\ IsFile(fs, <<"t", "/", "e">>)
  /\ IsFile(fs, <<"t", "/", "a">>)

----------------------------------------------------------------------------
(* The archive pruner.  Time is counted in ticks of 30 seconds.  The two    *)
(* backends of the service return LastMod without an error.                 *)

Minute == 2

\* filterItemCreatedAMinuteAgo(item, currentTime): TRUE keeps the item out of
\* the list
filterMutantShortWindow(itemLastModTime, currentTime) ==
  currentTime - itemLastModTime < Minute - 1

filterItemCreatedAMinuteAgo(itemLastModTime, currentTime) ==
  currentTime - itemLastModTime < Minute

\* getItemIDsWithFilter(filterItemCreatedAMinuteAgo, currentTime): the IDs of
\* all pages of the listing that the filter lets through
getItemIDsWithFilter(items, currentTime) ==
  {id \in DOMAIN items : ~filterItemCreatedAMinuteAgo(items[id], currentTime)}

ArchiveIDs == {<<"a">>, <<"b">>}

PruneTick ==
  /\ clock < MaxClock
  /\ clock' = clock + 1
  /\ UNCHANGED <<store, pending, earlyExtras, readers, tokens, served, cl, obs, fresh, lastEarly, made, sp, fs, ft, ex, lastMod, pr, readOnly, hx, ev, rdy, hist, dl, sc>>

\* an upload or a delete request served while the pruner runs
ArtifactStored(id) ==
  /\ lastMod' = MapPut(lastMod, id, clock)
  /\ UNCHANGED <<store, pending, earlyExtras, readers, tokens, served, cl, obs, fresh, lastEarly, made, sp, fs, ft, ex, clock, pr, readOnly, hx, ev, rdy, hist, dl, sc>>

ArtifactDeleted(id) ==
  /\ id \in DOMAIN lastMod
  /\ lastMod' = removeFileByID(lastMod, id)
  /\ UNCHANGED <<store, pending, earlyExtras, readers, tokens, served, cl, obs, fresh, lastEarly, made, sp, fs, ft, ex, clock, pr, readOnly, hx, ev, rdy, hist, dl, sc>>

\* one cycle starts: the list of the container at time.Now(), less the IDs the
\* reachability oracle reports as referenced
SweepStart(referenced) ==
  /\ pr.todo = {}
  /\ pr' = [currentTime |-> clock, listed |-> lastMod, referenced |-> referenced,
            todo |-> getItemIDsWithFilter(lastMod, clock) \ referenced,
            deleted |-> {}, failed |-> {}]
  /\ UNCHANGED <<store, pending, earlyExtras, readers, tokens, served, cl, obs, fresh, lastEarly, made, sp, fs, ft, ex, lastMod, clock, readOnly, hx, ev, rdy, hist, dl, sc>>

\* the removal of one orphan; a failed removal is logged and skipped
SweepDelete(id, ok) ==
  /\ id \in pr.todo
  /\ IF ok /\ id \in DOMAIN lastMod
       THEN /\ lastMod' = removeFileByID(lastMod, id)
            /\ pr' = [pr EXCEPT !.todo = @ \ {id}, !.deleted = @ \cup {id}]
       ELSE /\ UNCHANGED lastMod
            /\ pr' = [pr EXCEPT !.todo = @ \ {id}, !.failed = @ \cup {id}]
  /\ UNCHANGED <<store, pending, earlyExtras, readers, tokens, served, cl, obs, fresh, lastEarly, made, sp, fs, ft, ex, clock, readOnly, hx, ev, rdy, hist, dl, sc>>

NextPrune ==
  \/ PruneTick
  \/ \E id \in ArchiveIDs : ArtifactStored(id)
  \/ \E id \in ArchiveIDs : ArtifactDeleted(id)
  \/ \E referenced \in SUBSET ArchiveIDs : SweepStart(referenced)
  \/ \E id \in ArchiveIDs, ok \in BOOLEAN : SweepDelete(id, ok)

SpecPrune == Init /\ [][NextPrune]_vars

----------------------------------------------------------------------------
(* Downloads from a service started with read-only containers.             *)

StoredIDs == {<<"a">>, <<"b">>}
Containers == UNION {[ids -> Contents] : ids \in SUBSET StoredIDs}
ReadOnlyConfigs == UNION {[1..n -> Containers] : n \in 0..MaxFallbacks}

\* RunStorageService, once, before any request: resolveContainerFromConfig for
\* the write container and for every read-only one, then MakeStowClient; the
\* client keeps its container
RunStorageService(readWriteContainer, readOnlyContainers) ==
  /\ served = 0
  /\ \A c \in Clients : cl[c].pc = "idle"
  /\ store = EmptyMap /\ readOnly = << >>
  /\ store' = readWriteContainer
  /\ readOnly' = readOnlyContainers
  /\ UNCHANGED <<pending, earlyExtras, readers, tokens, served, obs, fresh, lastEarly, made, sp, fs, ft, ex, lastMod, clock, pr, cl, hx, ev, rdy, hist, dl, sc>>

\* client.copyFileToStream(fileId, w) and the status downloadHandler answers
copyFileToStream(fileId, fault) ==
  IF fault = "item" THEN [status |-> 400, body |-> << >>]
  ELSE IF fileId \notin DOMAIN store THEN [status |-> 404, body |-> << >>]
  ELSE IF fault = "open" THEN [status |-> 400, body |-> << >>]
  ELSE IF fault = "copy" THEN [status |-> 500, body |-> << >>]
  ELSE [status |-> 200, body |-> store[fileId]]

\* downloadHandler for any id
DownloadByID(c, id, fault) ==
  /\ cl[c].pc = "idle"
  /\ LET res == copyFileToStream(Base(id), fault)
     IN Set(c, [cl[c] EXCEPT !.pc = "downloaded", !.respId = id, !.dlFault = fault,
                             !.dlStatus = res.status, !.dlBody = res.body])
  /\ UNCHANGED <<pending, earlyExtras, readers, tokens, served, obs, fresh, lastEarly, made, sp, fs, ft, ex, lastMod, clock, pr, store, readOnly, hx, ev, rdy, hist, dl, sc>>

NextFallback ==
  \/ \E rw \in Containers, ros \in ReadOnlyConfigs : RunStorageService(rw, ros)
  \/ \E c \in Clients, id \in StoredIDs, fault \in DownloadFaults : DownloadByID(c, id, fault)
  \/ \E c \in Clients : Close(c)

SpecFallback == Init /\ [][NextFallback]_vars

\* the containers of the configuration, the write container first
AllContainers == <<store>> \o readOnly

\* C18: a download answered without a backend fault returns the artifact of
\* the first container, write container first and then the read-only ones in
\* declared order, that holds the id, and answers not-found only when no
\* container holds it.
C18_FallbackLookup ==
  \A c \in Clients :
    (cl[c].pc = "downloaded" /\ cl[c].dlFault = "none")
    => LET fileId == Base(cl[c].respId)
           holders == {i \in 1..Len(AllContainers) : fileId \in DOMAIN AllContainers[i]}
       IN IF holders = {}
            THEN cl[c].dlStatus = 404
            ELSE LET first == CHOOSE i \in holders : \A j \in holders : i <= j
                 IN /\ cl[c].dlStatus = 200
                    /\ cl[c].dlBody = AllContainers[first][fileId]

----------------------------------------------------------------------------
(* The status poll.  uploadStatusForCounter reads the counter in four calls, *)
(* each under the reader's lock for itself: Err, Extra, N, Err.              *)

StatusNames == {<<"a">>, <<"d", "/", "a">>}
StatusFaults == {"none", "item", "size"}

\* completedUpload(size) seen through uploadStatusForCounter
CompletedSnapshotMutantZero(size) ==
  [status |-> "done", extra |-> NilExtra, size |-> size, n |-> 0, err |-> EOF]

CompletedSnapshot(size) ==
  [status |-> "done", extra |-> NilExtra, size |-> size, n |-> size, err |-> EOF]

\* statusHandler up to the counter: getIdFromRequest, client.status
StatusStart(c, id, fault) ==
  /\ cl[c].pc = "idle"
  /\ served < MaxRequests
  /\ served' = served + 1
  /\ LET fileId == Base(id)
         found == get(fileId)
         rec == [cl[c] EXCEPT !.pollId = id, !.pollFault = fault,
                   !.completedBy = {d \in Clients : /\ cl[d].pc = "done"
                                                     /\ cl[d].status = 200
                                                     /\ cl[d].putName = id}]
         answered(code) == [rec EXCEPT !.pc = "polled", !.pollCode = code]
     IN IF found.counter # Nil
          THEN /\ fault = "none"
               /\ Set(c, [rec EXCEPT !.pc = "statusErr", !.pollR = found.counter,
                                     !.pollSize = found.size])
          ELSE IF fault = "item" THEN Set(c, answered(500))
          ELSE IF fileId \notin DOMAIN store THEN Set(c, answered(404))
          ELSE IF fault = "size" THEN Set(c, answered(500))
          ELSE Set(c, [answered(200) EXCEPT
                         !.snap = CompletedSnapshot(Len(store[fileId]))])
  /\ UNCHANGED <<store, pending, earlyExtras, readers, tokens, obs, fresh, lastEarly, made, sp, fs, ft, ex, lastMod, clock, pr, readOnly, hx, ev, rdy, hist, dl, sc>>

\* the next call of uploadStatusForCounter on the counter; the last one
\* completes the UploadStatus, which is then encoded
StatusRead(c) ==
  /\ cl[c].pc \in {"statusErr", "statusExtra", "statusN", "statusErr2"}
  /\ LET counter == readers[cl[c].pollR]
     IN CASE cl[c].pc = "statusErr" ->
               Set(c, [cl[c] EXCEPT !.pc = "statusExtra",
                         !.snap.status = IF counter.err = EOF THEN "done" ELSE "pending"])
          [] cl[c].pc = "statusExtra" ->
               Set(c, [cl[c] EXCEPT !.pc = "statusN", !.snap.extra = counter.extra])
          [] cl[c].pc = "statusN" ->
               Set(c, [cl[c] EXCEPT !.pc = "statusErr2", !.snap.n = counter.n,
                                    !.snap.size = cl[c].pollSize])
          [] cl[c].pc = "statusErr2" ->
               Set(c, [cl[c] EXCEPT !.pc = "polled", !.pollCode = 200,
                                    !.snap.err = counter.err])
  /\ UNCHANGED <<store, pending, earlyExtras, readers, tokens, obs, fresh, lastEarly, made, sp, fs, ft, ex, lastMod, clock, pr, readOnly, served, hx, ev, rdy, hist, dl, sc>>

StatusClose(c) ==
  /\ cl[c].pc = "polled"
  /\ Set(c, IdleClient)
  /\ UNCHANGED <<store, pending, earlyExtras, readers, tokens, obs, fresh, lastEarly, made, sp, fs, ft, ex, lastMod, clock, pr, readOnly, served, hx, ev, rdy, hist, dl, sc>>

NextStatus ==
  \/ \E c \in Clients, name \in StatusNames :
       UploadStart(c, name, Header(<<"1">>), NoHeader)
  \/ \E c \in Clients, item \in RaceItems : NextPart(c, item)
  \/ \E c \in Clients : PutRead(c)
  \/ \E c \in Clients, keep \in BOOLEAN : PutFail(c, keep)
  \/ \E c \in Clients : PutReturn(c)
  \/ \E c \in Clients, id \in StatusNames, fault \in StatusFaults : StatusStart(c, id, fault)
  \/ \E c \in Clients : StatusRead(c)
  \/ \E c \in Clients : StatusClose(c)

SpecStatus == Init /\ [][NextStatus]_vars

\* status polls beside uploads of one part
NextPoll ==
  \/ \E c \in Clients, name \in RaceNames :
       UploadStart(c, name, Header(<<"1">>), NoHeader)
  \/ \E c \in Clients, item \in RaceItems :
       (item.kind = "part" => cl[c].nparts = 0) /\ NextPart(c, item)
  \/ \E c \in Clients : PutRead(c)
  \/ \E c \in Clients, keep \in BOOLEAN : PutFail(c, keep)
  \/ \E c \in Clients : PutReturn(c)
  \/ \E c \in Clients, id \in StatusNames, fault \in StatusFaults : StatusStart(c, id, fault)
  \/ \E c \in Clients : StatusRead(c)
  \/ \E c \in Clients : StatusClose(c)

SpecPoll == Init /\ [][NextPoll]_vars

\* C19: in every UploadStatus that a status poll returns, status is "done"
\* exactly when the error of the snapshot is io.EOF, also when the reader is
\* read between the calls that build the snapshot.
C19_DoneIffEOF ==
  \A c \in Clients :
    (cl[c].pc = "polled" /\ cl[c].pollCode = 200)
    => (cl[c].snap.status = "done" <=> cl[c].snap.err = EOF)

\* C20: a status poll for the name of an upload that was answered 200, made
\* while no upload of that name is declared and with no backend fault, is
\* answered 200 with status "done" and n equal to size.
C20_DoneAfterCompletion ==
  \A c \in Clients :
    (/\ cl[c].pc = "polled"
     /\ cl[c].pollFault = "none"
     /\ cl[c].pollR = Nil
     /\ cl[c].completedBy # {})
    => /\ cl[c].pollCode = 200
       /\ cl[c].snap.status = "done"
       /\ cl[c].snap.n = cl[c].snap.size

----------------------------------------------------------------------------
(* The errors that cross the storage client and the bodies of the error    *)
(* responses.  An error value is named by its identity (err == ErrNotFound *)
(* compares identities); Error gives its text.  A response body is the     *)
(* format string and the texts printed into it.                            *)

ErrNotFound == "storagesvc.ErrNotFound"
ErrRetrievingItem == "storagesvc.ErrRetrievingItem"
ErrOpeningItem == "storagesvc.ErrOpeningItem"
ErrWritingFile == "storagesvc.ErrWritingFile"
ErrWritingFileIntoResponse == "storagesvc.ErrWritingFileIntoResponse"
ClientErrors ==
  {ErrNotFound, ErrRetrievingItem, ErrOpeningItem, ErrWritingFile, ErrWritingFileIntoResponse}

\* the errors of the backend: stow's sentinel and the errors of the file system
\* or of the remote API under it
StowErrNotFound == "stow.ErrNotFound"
OsErrNotExist == "os.ErrNotExist"
OsErrPermission == "os.ErrPermission"
BackendInternalErrors == {OsErrNotExist, OsErrPermission}

ErrMissingId == "errors.New(Missing id)"
ErrJsonSyntax == "json.SyntaxError"

\* err.Error()
Error(err) ==
  CASE err = ErrNotFound -> "not found"
    [] err = ErrRetrievingItem -> "unable to retrieve item"
    [] err = ErrOpeningItem -> "unable to open item"
    [] err = ErrWritingFile -> "unable to write file"
    [] err = ErrWritingFileIntoResponse -> "unable to copy item into http response"
    [] err = StowErrNotFound -> "not found"
    [] err = OsErrNotExist -> "remove /store/item: no such file or directory"
    [] err = OsErrPermission -> "open /store/item: permission denied"
    [] err = ErrMissingId -> "Missing `id' query param"
    [] err = ErrJsonSyntax -> "invalid character"
    [] OTHER -> ""

Fixed(text) == [fmt |-> text, args |-> << >>]
Sprintf(format, err) == [fmt |-> format, args |-> <<Error(err)>>]

\* getIdFromRequest: the id parameter of the query, if any
getIdFromRequest(query) ==
  IF ~query.ok THEN [id |-> << >>, err |-> ErrMissingId]
  ELSE [id |-> Base(query.v), err |-> NoErr]

\* container.Item(id)
ContainerItem(id, fault) ==
  IF fault = "item" THEN OsErrPermission
  ELSE IF id \notin DOMAIN store THEN StowErrNotFound
  ELSE NoErr

\* client.status(uploadName): the error it returns
status(uploadName, fault) ==
  IF get(uploadName).counter # Nil THEN NoErr
  ELSE LET err == ContainerItem(uploadName, fault)
       IN IF err = StowErrNotFound THEN ErrNotFound
          ELSE IF err # NoErr THEN err
          ELSE IF fault = "size" THEN OsErrPermission
          ELSE NoErr

\* client.copyFileToStream(fileId, w): the error it returns
copyFileToStreamErr(fileId, fault) ==
  LET err == ContainerItem(fileId, fault)
  IN IF err = StowErrNotFound THEN ErrNotFound
     ELSE IF err # NoErr THEN ErrRetrievingItem
     ELSE IF fault = "open" THEN ErrOpeningItem
     ELSE IF fault = "copy" THEN ErrWritingFileIntoResponse
     ELSE NoErr

\* container.RemoveItem(itemID), returned as it is by client.removeFileByID
RemoveItem(itemID, fault) ==
  IF fault = "remove" THEN OsErrPermission
  ELSE IF itemID \notin DOMAIN store THEN OsErrNotExist
  ELSE NoErr

Answer(op, query, fileId, fault, err, code, body) ==
  /\ served < MaxRequests
  /\ served' = served + 1
  /\ hx' = [op |-> op, query |-> query, fileId |-> fileId, fault |-> fault,
            err |-> err, code |-> code, body |-> body]

BadRequest(op, query, err) ==
  Answer(op, query, << >>, "none", NoErr, 400, Fixed(Error(err)))

\* the branch that statusHandler, eventsHandler and setStatusExtraHandler
\* share for the error of the client
StatusError(err) ==
  IF err = ErrNotFound THEN [code |-> 404, body |-> Fixed("{\"error\": \"not found\"}")]
  ELSE IF err = ErrRetrievingItem
    THEN [code |-> 400, body |-> Fixed("{\"error\": \"bad request\"}")]
  ELSE [code |-> 500, body |-> Sprintf("{\"error\": %#v}", err)]

\* the id parameter: absent, a name, a name under a directory, the parent
\* directory, the root
QueryIds == StatusNames \cup {<<"b">>, <<".", ".">>, <<"/">>}
Queries == {NoHeader} \cup {Header(id) : id \in QueryIds}

HxDownload(query, fault) ==
  /\ LET got == getIdFromRequest(query)
         err == copyFileToStreamErr(got.id, fault)
     IN IF got.err # NoErr THEN BadRequest("download", query, got.err)
        ELSE CASE err = ErrNotFound ->
                    Answer("download", query, got.id, fault, err, 404,
                           Fixed("Error retrieving item: not found"))
               [] err = ErrRetrievingItem ->
                    Answer("download", query, got.id, fault, err, 400,
                           Fixed("Error retrieving item"))
               [] err = ErrOpeningItem ->
                    Answer("download", query, got.id, fault, err, 400,
                           Fixed("Error opening item"))
               [] err = ErrWritingFileIntoResponse ->
                    Answer("download", query, got.id, fault, err, 500,
                           Fixed("Error writing response"))
               [] OTHER ->
                    Answer("download", query, got.id, fault, err, 200, Fixed(""))
  /\ UNCHANGED <<store, pending, earlyExtras, readers, tokens, cl, obs, fresh, lastEarly, made, sp, fs, ft, ex, lastMod, clock, pr, readOnly, ev, rdy, hist, dl, sc>>

HxDelete(query, fault) ==
  /\ LET got == getIdFromRequest(query)
         err == RemoveItem(got.id, fault)
     IN IF got.err # NoErr
          THEN BadRequest("delete", query, got.err) /\ UNCHANGED store
          ELSE IF err # NoErr
            THEN /\ Answer("delete", query, got.id, fault, err, 500,
                           Sprintf("Error deleting item: %v", err))
                 /\ UNCHANGED store
            ELSE /\ Answer("delete", query, got.id, fault, err, 200, Fixed(""))
                 /\ store' = removeFileByID(store, got.id)
  /\ UNCHANGED <<pending, earlyExtras, readers, tokens, cl, obs, fresh, lastEarly, made, sp, fs, ft, ex, lastMod, clock, pr, readOnly, ev, rdy, hist, dl, sc>>

\* statusHandler and eventsHandler up to the error of client.status
HxStatus(op, query, fault) ==
  /\ LET got == getIdFromRequest(query)
         err == status(got.id, fault)
     IN IF got.err # NoErr THEN BadRequest(op, query, got.err)
        ELSE IF err # NoErr
          THEN Answer(op, query, got.id, fault, err, StatusError(err).code,
                      StatusError(err).body)
          ELSE Answer(op, query, got.id, fault, err, 200, Fixed(""))
  /\ UNCHANGED <<store, pending, earlyExtras, readers, tokens, cl, obs, fresh, lastEarly, made, sp, fs, ft, ex, lastMod, clock, pr, readOnly, ev, rdy, hist, dl, sc>>

\* setStatusExtraHandler: the body is decoded, then client.setStatusExtra,
\* which returns what UploadRegistry.setExtra returns: nil
HxSetExtra(query, decoded, extra) ==
  /\ LET got == getIdFromRequest(query)
     IN IF got.err # NoErr
          THEN /\ BadRequest("setExtra", query, got.err)
               /\ UNCHANGED <<earlyExtras, readers>>
          ELSE IF ~decoded
            THEN /\ BadRequest("setExtra", query, ErrJsonSyntax)
                 /\ UNCHANGED <<earlyExtras, readers>>
            ELSE /\ setExtra(got.id, extra)
                 /\ Answer("setExtra", query, got.id, "none", NoErr, 200,
                           Fixed("{\"status\": \"ok\"}"))
  /\ UNCHANGED <<store, pending, tokens, cl, obs, fresh, lastEarly, made, sp, fs, ft, ex, lastMod, clock, pr, readOnly, ev, rdy, hist, dl, sc>>

\* the body of the response of uploadHandler, and the error putFile returned
uploadHandlerBody(rec) ==
  IF rec.status = 500 THEN Fixed("Error saving uploaded file")
  ELSE IF rec.status = 400 /\ rec.sizeHdr.ok /\ Atoi(rec.sizeHdr.v).err
    THEN Fixed("bad X-File-Size header")
  ELSE IF rec.status = 400 /\ rec.digest = << >> THEN Fixed("missing upload file")
  ELSE IF rec.status = 400 THEN Fixed("Didn't match expected X-File-Sha256")
  ELSE Fixed("")

putFileErr(rec) == IF rec.putErr THEN ErrWritingFile ELSE NoErr

NextErrors ==
  \/ \E c \in Clients, name \in StatusNames, sizeHdr \in SizeHeaders :
       Quiet(c) /\ UploadStart(c, name, sizeHdr, NoHeader)
  \/ \E c \in Clients, item \in RaceItems : NextPart(c, item)
  \/ \E c \in Clients : PutRead(c)
  \/ \E c \in Clients, keep \in BOOLEAN : PutFail(c, keep)
  \/ \E c \in Clients : PutReturn(c)
  \/ \E c \in Clients : Close(c)
  \/ \E query \in Queries, fault \in {"none", "item", "open", "copy"} : HxDownload(query, fault)
  \/ \E query \in Queries, fault \in {"none", "remove"} : HxDelete(query, fault)
  \/ \E op \in {"status", "events"}, query \in Queries, fault \in {"none", "item", "size"} :
       HxStatus(op, query, fault)
  \/ \E query \in Queries, decoded \in BOOLEAN, extra \in Extras \ {NilExtra} :
       HxSetExtra(query, decoded, extra)

SpecErrors == Init /\ [][NextErrors]_vars

LeaksBackendText(body) ==
  \E i \in DOMAIN body.args : body.args[i] \in {Error(e) : e \in BackendInternalErrors}

\* C21: every error that a storage client call returns is one of the five
\* fixed values, and no error response of a handler carries the text of an
\* error of the backend.
C21_FixedErrorVocabulary ==
  /\ hx.err # NoErr => hx.err \in ClientErrors
  /\ hx.code >= 400 => ~LeaksBackendText(hx.body)
  /\ \A c \in Clients :
       /\ putFileErr(cl[c]) # NoErr => putFileErr(cl[c]) \in ClientErrors
       /\ cl[c].pc = "done" => ~LeaksBackendText(uploadHandlerBody(cl[c]))

\* C22: the name that download, delete, status and events hand to the
\* storage client has no path separator in it and is not the parent
\* directory, whatever the id parameter is.
C22_SingleComponent ==
  (hx.op \in {"download", "delete", "status", "events"} /\ hx.query.ok)
  => /\ \A i \in DOMAIN hx.fileId : hx.fileId[i] # "/"
     /\ hx.fileId # <<".", ".">>

----------------------------------------------------------------------------
(* The streaming status endpoint.  The Ticker sends one snapshot of the    *)
(* counter per interval on its channel and closes the channel after a      *)
(* complete snapshot or when its context is done; the handler writes one   *)
(* record per snapshot received.                                           *)

\* Progress.Complete of a snapshot of the counter
Complete(counterErr, n, size) ==
  \/ counterErr = EOF
  \/ size # -1 /\ n >= size

\* the context the handler gives to the ticker; r.Context() would be done as
\* soon as the request is
TickerContextDone(rec) == rec.ctxDone

\* eventsHandler up to the loop
EventsStart(query, flushable, fault) ==
  /\ ev.pc = "idle"
  /\ served < MaxRequests
  /\ served' = served + 1
  /\ LET got == getIdFromRequest(query)
         err == status(got.id, fault)
         found == get(got.id)
         answered(code) == [ev EXCEPT !.pc = "returned", !.code = code]
     IN IF ~flushable THEN ev' = answered(500)
        ELSE IF got.err # NoErr THEN ev' = answered(400)
        ELSE IF err # NoErr THEN ev' = answered(StatusError(err).code)
        ELSE ev' = [ev EXCEPT !.pc = "streaming", !.fileId = got.id, !.code = 200,
                              !.ticker = "running",
                              !.counter = found.counter,
                              !.completed = found.counter = Nil,
                              !.size = IF found.counter # Nil THEN found.size
                                       ELSE Len(store[got.id])]
  /\ UNCHANGED <<store, pending, earlyExtras, readers, tokens, cl, obs, fresh, lastEarly, made, sp, fs, ft, ex, lastMod, clock, pr, readOnly, hx, rdy, hist, dl, sc>>

\* the client goes away: the server cancels the context of the request
Disconnect ==
  /\ ev.pc = "streaming"
  /\ ev.connected
  /\ ev' = [ev EXCEPT !.connected = FALSE, !.requestDone = TRUE]
  /\ UNCHANGED <<store, pending, earlyExtras, readers, tokens, served, cl, obs, fresh, lastEarly, made, sp, fs, ft, ex, lastMod, clock, pr, readOnly, hx, rdy, hist, dl, sc>>

\* the goroutine of the ticker finds its context done and ends
TickerCancelled ==
  /\ ev.ticker = "running"
  /\ TickerContextDone(ev)
  /\ ev' = [ev EXCEPT !.ticker = "stopped"]
  /\ UNCHANGED <<store, pending, earlyExtras, readers, tokens, served, cl, obs, fresh, lastEarly, made, sp, fs, ft, ex, lastMod, clock, pr, readOnly, hx, rdy, hist, dl, sc>>

\* one interval passes: the ticker sends a snapshot, the handler writes it as
\* "event: status" and flushes; a failed write ends the loop, and so does the
\* close of the channel after a complete snapshot.  The deferred cancel runs
\* when the handler returns.
Tick ==
  /\ ev.pc = "streaming"
  /\ ev.ticker = "running"
  /\ ~TickerContextDone(ev)
  /\ ev.ticks < MaxTicks
  /\ LET counterErr == IF ev.completed THEN EOF ELSE readers[ev.counter].err
         n == IF ev.completed THEN ev.size ELSE readers[ev.counter].n
         done == Complete(counterErr, n, ev.size)
         rec == [ev EXCEPT !.ticks = @ + 1]
     IN IF ~ev.connected
          THEN ev' = [rec EXCEPT !.pc = "returned", !.left = "writeErr", !.ctxDone = TRUE]
          ELSE IF done
            THEN ev' = [rec EXCEPT !.emitted = @ + 1, !.last = "done",
                                   !.ticker = "stopped",
                                   !.pc = "returned", !.left = "closed", !.ctxDone = TRUE]
            ELSE ev' = [rec EXCEPT !.emitted = @ + 1, !.last = "pending"]
  /\ UNCHANGED <<store, pending, earlyExtras, readers, tokens, served, cl, obs, fresh, lastEarly, made, sp, fs, ft, ex, lastMod, clock, pr, readOnly, hx, rdy, hist, dl, sc>>

EventsClose ==
  /\ ev.pc = "returned"
  /\ ev.ticker # "running"
  /\ ev' = IdleEv
  /\ UNCHANGED <<store, pending, earlyExtras, readers, tokens, served, cl, obs, fresh, lastEarly, made, sp, fs, ft, ex, lastMod, clock, pr, readOnly, hx, rdy, hist, dl, sc>>

NextEvents ==
  \/ \E c \in Clients, name \in RaceNames, sizeHdr \in {NoHeader, Header(<<"1">>)} :
       UploadStart(c, name, sizeHdr, NoHeader)
  \/ \E c \in Clients, item \in RaceItems : NextPart(c, item)
  \/ \E c \in Clients : PutRead(c)
  \/ \E c \in Clients, keep \in BOOLEAN : PutFail(c, keep)
  \/ \E c \in Clients : PutReturn(c)
  \/ \E c \in Clients : Close(c)
  \/ \E id \in RaceNames, flushable \in BOOLEAN, fault \in {"none", "item"} :
       EventsStart(Header(id), flushable, fault)
  \/ \E flushable \in BOOLEAN : EventsStart(NoHeader, flushable, "none")
  \/ Disconnect
  \/ TickerCancelled
  \/ Tick
  \/ EventsClose

SpecEvents == Init /\ [][NextEvents]_vars

\* C23: the context that stops the ticker is done as soon as the request's
\* context is (the client went away); a stream that has ended ended on a
\* complete snapshot or after the client went away; and while the client is
\* there every tick has written one record.
C23_StreamStops ==
  /\ ev.requestDone => ev.ctxDone
  /\ (ev.pc = "returned" /\ ev.code = 200) => (ev.last = "done" \/ ev.requestDone)
  /\ ev.connected => ev.emitted = ev.ticks

----------------------------------------------------------------------------
(* The fetcher process: main starts the startup specialization in a        *)
(* goroutine and serves the probes.  readyToServe is written by that       *)
(* goroutine and read by the handlers with no synchronization, so a read   *)
(* made after the write returns the old or the new value.                  *)

ReadinessPath == "/readiness-healthz"
ProbePaths == {ReadinessPath, "/readniess-healthz", "/healthz"}

\* the patterns registered on the ServeMux, matched exactly
Route(path) ==
  CASE path = "/readniess-healthz" -> "readiness"
    [] path = "/healthz" -> "health"
    [] OTHER -> "NotFound"

\* main up to ListenAndServe
Main(specializeOnStart) ==
  /\ rdy.pc = "init"
  /\ rdy' = [rdy EXCEPT !.pc = IF specializeOnStart THEN "specializing" ELSE "serving",
                        !.specializeOnStart = specializeOnStart]
  /\ UNCHANGED <<store, pending, earlyExtras, readers, tokens, served, cl, obs, fresh, lastEarly, made, sp, fs, ft, ex, lastMod, clock, pr, readOnly, hx, ev, hist, dl, sc>>

\* the goroutine: SpecializePod returns; log.Fatalf ends the process on an error
StartupSpecialized(ok) ==
  /\ rdy.pc = "specializing"
  /\ rdy' = IF ok THEN [rdy EXCEPT !.pc = "serving", !.readyToServe = TRUE,
                                   !.specialized = TRUE]
            ELSE [rdy EXCEPT !.pc = "exited"]
  /\ UNCHANGED <<store, pending, earlyExtras, readers, tokens, served, cl, obs, fresh, lastEarly, made, sp, fs, ft, ex, lastMod, clock, pr, readOnly, hx, ev, hist, dl, sc>>

\* the values a handler may read from readyToServe
ReadyToServeReads == IF rdy.readyToServe THEN {FALSE, TRUE} ELSE {FALSE}

\* one request to the mux
Probe(path, seen) ==
  /\ rdy.pc \in {"specializing", "serving"}
  /\ Len(rdy.answers) < MaxProbes
  /\ seen \in ReadyToServeReads
  /\ LET code == CASE Route(path) = "readiness" ->
                        IF ~rdy.specializeOnStart \/ seen THEN 200 ELSE 503
                   [] Route(path) = "health" -> 200
                   [] OTHER -> 404
     IN rdy' = [rdy EXCEPT !.answers = Append(@, [path |-> path, code |-> code,
                                                 specialized |-> rdy.specialized])]
  /\ UNCHANGED <<store, pending, earlyExtras, readers, tokens, served, cl, obs, fresh, lastEarly, made, sp, fs, ft, ex, lastMod, clock, pr, readOnly, hx, ev, hist, dl, sc>>

NextReady ==
  \/ \E specializeOnStart \in BOOLEAN : Main(specializeOnStart)
  \/ \E ok \in BOOLEAN : StartupSpecialized(ok)
  \/ \E path \in ProbePaths, seen \in BOOLEAN : Probe(path, seen)

SpecReady == Init /\ [][NextReady]_vars

\* C24: every probe of the readiness endpoint, by its documented path or by
\* the path its handler is registered under, is answered 503 when the
\* process was started with specialize-on-startup and the startup
\* specialization had not yet returned successfully, and 200 otherwise; so
\* the answers never go back from 200 to 503.
C24_ReadinessFollowsSpecialization ==
  \A i \in DOMAIN rdy.answers :
    (rdy.answers[i].path = ReadinessPath \/ Route(rdy.answers[i].path) = "readiness")
    => rdy.answers[i].code =
         IF rdy.specializeOnStart /\ ~rdy.answers[i].specialized THEN 503 ELSE 200

----------------------------------------------------------------------------
(* DockerBlobFetcher.DownloadFinalLayer.  A layer descriptor is its digest; *)
(* the registry answers the blob request with bytes of its choosing; the   *)
(* verifier hashes what the extraction reads through the TeeReader.        *)

LayerBlobs == {<< >>, <<0>>, <<0, ZipMagic>>}
LayerDigests == {Sha256Hex(c) : c \in LayerBlobs}
Manifests == UNION {[1..n -> LayerDigests] : n \in 0..MaxLayers}

\* for _, layer := range manifest.References() { lastLayer = layer }: the zero
\* descriptor, with the empty digest, when there is none
LastLayerMutantFirst(manifest) == IF manifest = << >> THEN << >> ELSE manifest[1]

LastLayer(manifest) == IF manifest = << >> THEN << >> ELSE manifest[Len(manifest)]

\* verifier.Verified(): the hash of the bytes written to the verifier is the digest
VerifiedMutantAlways(written, digest) == TRUE

Verified(written, digest) == Sha256Hex(written) = digest

DlDone(rec, err) == [rec EXCEPT !.pc = "done", !.err = err]

\* the reference is parsed and the manifest is asked for
DlManifest(parsed, res) ==
  /\ dl.pc = "idle"
  /\ dl' = IF ~parsed THEN DlDone(dl, "reference")
           ELSE IF ~res.ok THEN DlDone(dl, "manifest")
           ELSE [dl EXCEPT !.pc = "blob", !.manifest = res.manifest,
                           !.lastLayer = LastLayer(res.manifest)]
  /\ UNCHANGED <<store, pending, earlyExtras, readers, tokens, served, cl, obs, fresh, lastEarly, made, sp, fs, ft, ex, lastMod, clock, pr, readOnly, hx, ev, rdy, hist, sc>>

\* hub.DownloadBlob(ctx, imageName, lastLayer.Digest); Digest.Verifier() panics
\* on a digest with no algorithm in it
DlDownloadBlob(ok, blob) ==
  /\ dl.pc = "blob"
  /\ dl' = IF ~ok THEN DlDone([dl EXCEPT !.asked = dl.lastLayer], "blob")
           ELSE IF dl.lastLayer = << >>
             THEN DlDone([dl EXCEPT !.asked = dl.lastLayer, !.blob = blob], "panic")
           ELSE [dl EXCEPT !.pc = "extract", !.asked = dl.lastLayer, !.blob = blob]
  /\ UNCHANGED <<store, pending, earlyExtras, readers, tokens, served, cl, obs, fresh, lastEarly, made, sp, fs, ft, ex, lastMod, clock, pr, readOnly, hx, ev, rdy, hist, sc>>

\* tarextract.ExtractTarGz(hashingReader, tmpPath) reads k bytes of the blob
\* and returns; then the verifier is asked
DlExtract(k, extracted) ==
  /\ dl.pc = "extract"
  /\ k \in 0..Len(dl.blob)
  /\ LET rec == [dl EXCEPT !.read = SubSeq(dl.blob, 1, k)]
     IN dl' = IF ~extracted THEN DlDone(rec, "extract")
              ELSE IF ~Verified(rec.read, rec.lastLayer) THEN DlDone(rec, "digestMismatch")
              ELSE DlDone(rec, NoErr)
  /\ UNCHANGED <<store, pending, earlyExtras, readers, tokens, served, cl, obs, fresh, lastEarly, made, sp, fs, ft, ex, lastMod, clock, pr, readOnly, hx, ev, rdy, hist, sc>>

DlReturn ==
  /\ dl.pc = "done"
  /\ dl' = IdleDl
  /\ UNCHANGED <<store, pending, earlyExtras, readers, tokens, served, cl, obs, fresh, lastEarly, made, sp, fs, ft, ex, lastMod, clock, pr, readOnly, hx, ev, rdy, hist, sc>>

NextLayer ==
  \/ \E parsed \in BOOLEAN, manifest \in Manifests, ok \in BOOLEAN :
       DlManifest(parsed, [ok |-> ok, manifest |-> IF ok THEN manifest ELSE << >>])
  \/ \E ok \in BOOLEAN, blob \in LayerBlobs : DlDownloadBlob(ok, IF ok THEN blob ELSE << >>)
  \/ \E k \in 0..2, extracted \in BOOLEAN : DlExtract(k, extracted)
  \/ DlReturn

SpecLayer == Init /\ [][NextLayer]_vars

\* C31: the blob asked for is the last layer of the manifest; the call
\* returns success only when the bytes read of the blob hash to that layer's
\* digest; and when the extraction returned no error and the bytes do not
\* hash to it, the call returns the digest-mismatch error.
C31_FinalLayerVerified ==
  /\ (dl.pc \in {"extract", "done"} /\ dl.err \notin {"reference", "manifest"})
       => /\ dl.asked = dl.lastLayer
          /\ dl.manifest # << >> => dl.asked = dl.manifest[Len(dl.manifest)]
  /\ (dl.pc = "done" /\ dl.err = NoErr)
       => /\ dl.manifest # << >>
          /\ Sha256Hex(dl.read) = dl.manifest[Len(dl.manifest)]
  /\ (dl.pc = "done" /\ dl.err \notin {"reference", "manifest", "blob", "panic", "extract"}
      /\ Sha256Hex(dl.read) # dl.asked)
       => dl.err = "digestMismatch"

\* a manifest of two different layers, the blob of the last one read whole
C31_Witness ==
  /\ dl.pc = "done"
  /\ dl.err = NoErr
  /\ Len(dl.manifest) = 2
  /\ dl.manifest[1] # dl.manifest[2]
  /\ dl.read = dl.blob
  /\ Len(dl.read) = 2

----------------------------------------------------------------------------
(* Fetcher.FetchSecretsAndCfgMaps.  A reference is a namespace and a name;  *)
(* the kube API answers each Get with the resource, with a not-found error *)
(* or with another error; a resource is a map from keys to values.  The    *)
(* cluster holds four resources, of two, one, one and no keys.              *)

sharedSecretPath == <<"/", "s">>
sharedConfigPath == <<"/", "c">>
Refs == {[Namespace |-> <<"n">>, Name |-> nm] : nm \in {<<"a">>, <<"b">>}}
RefLists == UNION {[1..n -> Refs] : n \in 0..MaxRefs}
DataKeys == {<<"k">>, <<"l">>}
GetOutcomes == {"found", "notFound", "other"}
SecretValue == <<0>>

\* data.Data of the resource a Get returns
Data(at) ==
  IF at.kind = "secret" THEN (IF at.ref.Name = <<"a">> THEN DataKeys ELSE {<<"k">>})
  ELSE (IF at.ref.Name = <<"a">> THEN {<<"l">>} ELSE {})

\* httpCode := http.StatusInternalServerError; if k8serr.IsNotFound(err) { 404 }
GetErrorCodeMutantAlways500(outcome) == 500

GetErrorCode(outcome) == IF outcome = "notFound" THEN 404 ELSE 500

\* the reference the i-th pass of the two loops is about
RefAt(rec, i) ==
  IF i <= Len(rec.secrets) THEN [kind |-> "secret", ref |-> rec.secrets[i]]
  ELSE [kind |-> "configmap", ref |-> rec.cfgmaps[i - Len(rec.secrets)]]

\* filepath.Join(root, filepath.Join(ref.Namespace, ref.Name))
ResourceDir(at) ==
  Join(IF at.kind = "secret" THEN sharedSecretPath ELSE sharedConfigPath,
       Join(at.ref.Namespace, at.ref.Name))

\* writeSecretOrConfigMap: ioutil.WriteFile(filepath.Join(dirPath, key), val, 0600)
\* for the keys in keys
writeSecretOrConfigMap(files, keys, dirPath) ==
  [p \in (DOMAIN files) \cup {Join(dirPath, k) : k \in keys} |->
     IF p \in {Join(dirPath, k) : k \in keys} THEN SecretValue ELSE files[p]]

ScStart(secrets, cfgmaps) ==
  /\ sc.pc = "idle"
  /\ sc' = IF Len(secrets) + Len(cfgmaps) = 0
             THEN [sc EXCEPT !.pc = "done", !.code = 200, !.i = 0, !.looked = << >>,
                             !.secrets = secrets, !.cfgmaps = cfgmaps]
           ELSE [sc EXCEPT !.pc = "run", !.code = 0, !.i = 1, !.looked = << >>,
                           !.secrets = secrets, !.cfgmaps = cfgmaps]
  /\ UNCHANGED <<store, pending, earlyExtras, readers, tokens, served, cl, obs, fresh, lastEarly, made, sp, fs, ft, ex, lastMod, clock, pr, readOnly, hx, ev, rdy, hist, dl>>

\* one pass of a loop: Get, MkdirAll, writeSecretOrConfigMap.  A write that
\* fails at key bad has written the keys in pre before it (map order).
ScPass(outcome, mkdirOk, bad, pre) ==
  /\ sc.pc = "run"
  /\ LET at == RefAt(sc, sc.i)
         keys == Data(at)
         writeOk == bad \notin keys
         done == IF writeOk THEN keys ELSE pre \cap (keys \ {bad})
         rec == [sc EXCEPT !.looked = Append(@, [kind |-> at.kind, ref |-> at.ref,
                                                  outcome |-> outcome])]
     IN sc' = IF outcome # "found"
                THEN [rec EXCEPT !.pc = "done", !.code = GetErrorCode(outcome)]
              ELSE IF ~mkdirOk THEN [rec EXCEPT !.pc = "done", !.code = 500]
              ELSE IF ~writeOk
                THEN [rec EXCEPT !.pc = "done", !.code = 500,
                                 !.files = writeSecretOrConfigMap(@, done, ResourceDir(at))]
              ELSE IF sc.i = Len(sc.secrets) + Len(sc.cfgmaps)
                THEN [rec EXCEPT !.pc = "done", !.code = 200,
                                 !.files = writeSecretOrConfigMap(@, keys, ResourceDir(at))]
              ELSE [rec EXCEPT !.i = @ + 1,
                               !.files = writeSecretOrConfigMap(@, keys, ResourceDir(at))]
  /\ UNCHANGED <<store, pending, earlyExtras, readers, tokens, served, cl, obs, fresh, lastEarly, made, sp, fs, ft, ex, lastMod, clock, pr, readOnly, hx, ev, rdy, hist, dl>>

ScReturn ==
  /\ sc.pc = "done"
  /\ sc' = IdleSc
  /\ UNCHANGED <<store, pending, earlyExtras, readers, tokens, served, cl, obs, fresh, lastEarly, made, sp, fs, ft, ex, lastMod, clock, pr, readOnly, hx, ev, rdy, hist, dl>>

NextSecrets ==
  \/ \E secrets \in RefLists, cfgmaps \in RefLists : ScStart(secrets, cfgmaps)
  \/ \E mkdirOk \in BOOLEAN, bad \in DataKeys \cup {<< >>}, pre \in SUBSET DataKeys :
       ScPass("found", mkdirOk, bad, pre)
  \/ \E outcome \in GetOutcomes \ {"found"} : ScPass(outcome, TRUE, << >>, {})
  \/ ScReturn

SpecSecrets == Init /\ [][NextSecrets]_vars

\* the references of the request in the order of the two loops
RequestOrder(rec) ==
  [i \in 1..(Len(rec.secrets) + Len(rec.cfgmaps)) |-> RefAt(rec, i)]

\* C32: the lookups made are the secrets and then the configmaps of the
\* request in request order; a failed lookup is the last one made and the
\* call returns 404 for a resource that does not exist and 500 for another
\* lookup failure; and the call returns 200 only after every reference was
\* looked up and found and every key of it is a file at root/namespace/name/key.
C32_SecretsThenConfigMaps ==
  /\ Len(sc.looked) <= Len(sc.secrets) + Len(sc.cfgmaps)
  /\ \A i \in 1..Len(sc.looked) :
       /\ sc.looked[i].kind = RequestOrder(sc)[i].kind
       /\ sc.looked[i].ref = RequestOrder(sc)[i].ref
       /\ sc.looked[i].outcome # "found"
            => /\ i = Len(sc.looked)
               /\ sc.pc = "done"
               /\ sc.code = (IF sc.looked[i].outcome = "notFound" THEN 404 ELSE 500)
  /\ (sc.pc = "done" /\ sc.code = 200)
       => /\ Len(sc.looked) = Len(sc.secrets) + Len(sc.cfgmaps)
          /\ \A i \in 1..Len(sc.looked) :
               /\ sc.looked[i].outcome = "found"
               /\ \A k \in (IF i <= Len(sc.secrets)
                             THEN (IF sc.looked[i].ref.Name = <<"a">> THEN {<<"k">>, <<"l">>}
                                   ELSE {<<"k">>})
                           ELSE (IF sc.looked[i].ref.Name = <<"a">> THEN {<<"l">>} ELSE {})) :
                    LET root == IF i <= Len(sc.secrets) THEN <<"/", "s">> ELSE <<"/", "c">>
                        path == root \o <<"/">> \o sc.looked[i].ref.Namespace \o <<"/">>
                                  \o sc.looked[i].ref.Name \o <<"/">> \o k
                    IN path \in DOMAIN sc.files

\* a secret is written, then the lookup of the configmap after it reports
\* that the configmap does not exist
C32_Witness ==
  /\ sc.pc = "done"
  /\ sc.code = 404
  /\ Len(sc.secrets) = 1
  /\ Len(sc.looked) = 2
  /\ sc.looked[1].ref.Name = <<"a">>
  /\ sc.looked[2].kind = "configmap"
  /\ <<"/", "s", "/", "n", "/", "a", "/", "k">> \in DOMAIN sc.files
  /\ <<"/", "s", "/", "n", "/", "a", "/", "l">> \in DOMAIN sc.files

====
